---- MODULE Spec2Model ----
(***************************************************************************)
(* Model of the three orchestration mechanisms of ai-knowledge-agent:      *)
(*   - the Analyst reflexion loop      (product/analyst_core.py)           *)
(*   - the Curator fallback chain      (src/curator.py)                    *)
(*   - the Manager circuit breaker     (studio/manager.py)                 *)
(*   - the Review Agent gate pipeline  (studio/review_agent.py)            *)
(* Python strings are sequences of one-character strings, Python dicts are *)
(* functions whose DOMAIN is the set of keys present.                      *)
(***************************************************************************)
EXTENDS Integers, Sequences, FiniteSets, TLC

VARIABLES
    state,          \* AnalysisState dict threaded through the analyst graph
    pc,             \* analyst graph: node to run next, "END" or "raised"
    llm_calls,      \* analyst: every llm.invoke made, in order
    produced,       \* analyst: every draft written to state, in order
    steps,          \* analyst: the graph nodes executed, in order
    a_impl,         \* analyst: which analyst_core module built the graph
    c_impl,         \* curator: which search path search_node uses
    c_topic,        \* curator: topic given to search_node
    c_query,        \* curator: query given to Curator.search
    c_pc,           \* curator: position inside Curator.search
    c_calls,        \* curator: provider calls made, in order
    c_result,       \* curator: list returned by Curator.search
    c_error,        \* curator: exception that escaped Curator.search
    optimization_attempts, \* manager: dict component -> count
    optimizer_runs, \* manager: studio.optimizer subprocess runs, per target
    m_calls,        \* manager: number of trigger_recovery calls made
    m_last,         \* manager: what the last trigger_recovery call did
    r_prs,          \* review: the open_prs list given to process_open_prs
    r_llm,          \* review: TRUE iff self.llm is configured
    r_hist_on,      \* review: TRUE iff CI or UPDATE_REVIEW_HISTORY is set
    r_i,            \* review: index of the PR being processed
    r_pc,           \* review: position inside process_open_prs
    r_local,        \* review: the local variables of the current iteration
    r_trace,        \* review: the operations done for the current PR, in order
    r_stats,        \* review: per PR, what has been done to it so far
    r_history,      \* review: the entries of studio/review_history.md
    v_impl,         \* scorer: which validation_node runs
    v_topic,        \* scorer: state["topic"]
    v_raw,          \* scorer: state["raw_candidates"]
    v_env,          \* scorer: what Hacker News and the models answer
    v_pc,           \* scorer: position of validation_node
    v_vetted,       \* scorer: vetted_books returned
    v_selected,     \* scorer: selected_book returned
    v_ops,          \* scorer: what the loop over the candidates did, in order
    p_parser,       \* parsers: the parser called
    p_content,      \* parsers: the model's answer it is given
    p_pc,           \* parsers: "call", then "done"
    p_out,          \* parsers: what the call gave
    t_pc,           \* manager threads: position of each trigger_recovery call
    t_retries,      \* manager threads: each call's local current_retries
    k_remote,       \* compliance: the PR description as it is on GitHub
    k_body,         \* compliance: pr.body of the PullRequest object held
    k_updates,      \* compliance: number of pr.update() calls made
    k_checks,       \* compliance: the check_copilot_compliance calls made
    q_topic,        \* pipeline: topic given to run_pipeline
    q_pc,           \* pipeline: the stage run_pipeline is about to call
    q_local,        \* pipeline: the local variables of run_pipeline
    q_calls,        \* pipeline: the stages invoked, in order
    q_outcome,      \* pipeline: how run_pipeline ended
    d_entry,        \* daemon: "main", or "autopilot_loop" called directly
    d_run_now,      \* daemon: TRUE iff --run-now is in sys.argv
    d_run_once,     \* daemon: the run_once argument of autopilot_loop
    d_pc,           \* daemon: position in main and autopilot_loop
    d_exit,         \* daemon: exit status of the process, -1 while it runs
    d_pull,         \* daemon: how the git pull of main ended
    d_clock,        \* daemon: what time.time() gives, in seconds
    d_now,          \* daemon: the local now of the current iteration
    d_last_check_time, \* daemon: self.last_check_time
    d_iters,        \* daemon: one record per iteration of the loop
    w_outcome,      \* walk: what the two requests of get_hn_comments give
    w_tree,         \* walk: the discussion tree the items request returns
    w_pc,           \* walk: position inside get_hn_comments
    w_stack,        \* walk: the active calls of extract_comments
    w_comments_text, \* walk: the list comments_text
    w_out           \* walk: the string get_hn_comments returned

analystVars == <<state, pc, llm_calls, produced, steps, a_impl>>
curatorVars == <<c_impl, c_topic, c_query, c_pc, c_calls, c_result, c_error>>
managerVars == <<optimization_attempts, optimizer_runs, m_calls, m_last>>
reviewVars == <<r_prs, r_llm, r_hist_on, r_i, r_pc, r_local, r_trace,
                r_stats, r_history>>
scorerVars == <<v_impl, v_topic, v_raw, v_env, v_pc, v_vetted, v_selected,
                v_ops>>
parserVars == <<p_parser, p_content, p_pc, p_out>>
threadVars == <<t_pc, t_retries>>
complianceVars == <<k_remote, k_body, k_updates, k_checks>>
pipelineVars == <<q_topic, q_pc, q_local, q_calls, q_outcome>>
daemonVars == <<d_entry, d_run_now, d_run_once, d_pc, d_exit, d_pull, d_clock, d_now, d_last_check_time, d_iters>>
walkVars == <<w_outcome, w_tree, w_pc, w_stack, w_comments_text, w_out>>
vars == <<state, pc, llm_calls, produced, steps, a_impl,
          c_impl, c_topic, c_query, c_pc, c_calls, c_result, c_error,
          optimization_attempts, optimizer_runs, m_calls, m_last,
          r_prs, r_llm, r_hist_on, r_i, r_pc, r_local, r_trace,
          r_stats, r_history,
          v_impl, v_topic, v_raw, v_env, v_pc, v_vetted, v_selected, v_ops,
          p_parser, p_content, p_pc, p_out,
          t_pc, t_retries,
          k_remote, k_body, k_updates, k_checks,
          q_topic, q_pc, q_local, q_calls, q_outcome,
          d_entry, d_run_now, d_run_once, d_pc, d_exit, d_pull, d_clock, d_now, d_last_check_time, d_iters,
          w_outcome, w_tree, w_pc, w_stack, w_comments_text, w_out>>

(***************************************************************************)
(* Python string and dict primitives                                       *)
(***************************************************************************)

\* Python's: sub in s
Contains(s, sub) ==
    \E i \in 0..(Len(s) - Len(sub)) : SubSeq(s, i + 1, i + Len(sub)) = sub

RECURSIVE LStripChars(_, _)
\* s.lstrip(chars)
LStripChars(s, chars) ==
    IF s # <<>> /\ Head(s) \in chars THEN LStripChars(Tail(s), chars) ELSE s

RECURSIVE RStripChars(_, _)
\* s.rstrip(chars)
RStripChars(s, chars) ==
    IF s # <<>> /\ s[Len(s)] \in chars
    THEN RStripChars(SubSeq(s, 1, Len(s) - 1), chars) ELSE s

\* s.strip()
Strip(s) == RStripChars(LStripChars(s, {" ", "\n", "\t"}), {" ", "\n", "\t"})

RECURSIVE SplitOn(_, _)
\* s.split(sep) for a one-character separator
SplitOn(s, sep) ==
    IF \A i \in 1..Len(s) : s[i] # sep
    THEN <<s>>
    ELSE LET k == CHOOSE i \in 1..Len(s) :
                     s[i] = sep /\ \A j \in 1..(i - 1) : s[j] # sep
         IN  <<SubSeq(s, 1, k - 1)>> \o SplitOn(SubSeq(s, k + 1, Len(s)), sep)

RECURSIVE Join(_, _)
\* sep.join(parts)
Join(sep, parts) ==
    IF parts = <<>> THEN <<>>
    ELSE IF Len(parts) = 1 THEN parts[1]
    ELSE parts[1] \o sep \o Join(sep, Tail(parts))

LowerChar(c) ==
    CASE c = "N" -> "n"
      [] c = "I" -> "i"
      [] c = "L" -> "l"
      [] c = "G" -> "g"
      [] c = "T" -> "t"
      [] c = "M" -> "m"
      [] c = "B" -> "b"
      [] c = "S" -> "s"
      [] c = "A" -> "a"
      [] OTHER   -> c

\* s.lower()
Lower(s) == [i \in 1..Len(s) |-> LowerChar(s[i])]

\* str(i) for the small positive integers the model uses
IntStr(i) ==
    CASE i = 0 -> <<"0">>
      [] i = 1 -> <<"1">>
      [] i = 2 -> <<"2">>
      [] i = 3 -> <<"3">>
      [] OTHER -> <<"9">>

\* d.get(k, default)
Get(d, k, default) == IF k \in DOMAIN d THEN d[k] ELSE default

\* LangGraph state update: the keys a node returns overwrite the state's
Merge(d, upd) == upd @@ d

(***************************************************************************)
(* Analyst reflexion loop: product/analyst_core.py                         *)
(***************************************************************************)

MAX_RETRIES == 3

END == "END"

\* the approval sentinel tested by should_continue
LGTM == <<"L", "G", "T", "M">>

\* bounds of the analyst model
MaxInitCount == 4

\* inputs and model responses the analyst model enumerates
OriginalTexts == { <<"f", "o", "x">>, <<"a", "b">> }
RouterResponses == { <<"N", "a", "r", "r", "a", "t", "i", "v", "e", "\n">>,
                     <<"h", "o", "w">> }
ThesisResponses == { <<"T">>, <<" ", "f", "o", "x", "\n">> }
CoreIdeasResponses == { <<" ">>,
                        <<"*", " ", "i">>,
                        <<"1", ".", "i", "\n", "\n", "-", "j">> }
EvidenceResponses == { <<"e">>, <<"a", "b", " ">> }
CriticResponses == { <<"L", "G", "T", "M">>,
                     <<"B", "a", "d">>,
                     <<"l", "g", "t", "m">>,
                     <<"o", "k", " ", "L", "G", "T", "M", "!">> }
ReviseResponses == { <<"R">>, <<"f", "o", "x", "2">> }

\* the initial states a caller may pass to app.invoke
InitialStates ==
    { [original_text |-> t] : t \in OriginalTexts }
    \cup { [original_text |-> t, revision_count |-> n] :
             t \in OriginalTexts, n \in 0..MaxInitCount }

\* the two analyst graphs in the sources: product/analyst_core.py and the
\* older analyst_core.py
AnalystImpls == {"product.analyst_core", "analyst_core"}

\* the model's answers to the draft prompt of analyst_core.py
LegacyDraftResponses == { <<"D">>, <<"f", "o", "x", " ", "m">> }

LlmCall(node, human, response) ==
    [node |-> node, human |-> human, response |-> response]

\* router_node: classify the book from the model's answer
RouterDecision(response) ==
    IF Contains(Lower(Strip(response)),
                <<"n", "a", "r", "r", "a", "t", "i", "v", "e">>)
    THEN "narrative" ELSE "instructional"

\* draft_node: the non-empty stripped lines of the core-ideas answer
CoreIdeas(core_ideas_response) ==
    LET lines == SplitOn(Strip(core_ideas_response), "\n")
        stripped == [i \in 1..Len(lines) |-> Strip(lines[i])]
    IN  SelectSeq(stripped, LAMBDA l : l # <<>>)

RECURSIVE IdeaParts(_, _, _)
\* draft_node: the two script parts appended for each core idea from i on
IdeaParts(core_ideas, evidence, i) ==
    IF i > Len(core_ideas) THEN <<>>
    ELSE << <<"\n", "C", "o", "r", "e", " ", "I", "d", "e", "a", " ">>
              \o IntStr(i) \o <<":", " ">>
              \o LStripChars(core_ideas[i], {"*", "-", " "}),
            <<"S", "u", "p", "p", "o", "r", "t", "i", "n", "g", " ",
              "E", "v", "i", "d", "e", "n", "c", "e", ":", " ">>
              \o Strip(evidence[i]) >>
         \o IdeaParts(core_ideas, evidence, i + 1)

\* draft_node: final_script
DraftScript(thesis_response, core_ideas_response, evidence) ==
    Join(<<"\n">>,
         << <<"C", "e", "n", "t", "r", "a", "l", " ",
              "T", "h", "e", "s", "i", "s", ":", " ">>
              \o Strip(thesis_response) >>
         \o IdeaParts(CoreIdeas(core_ideas_response), evidence, 1))

\* critique_node: content of the HumanMessage sent to the critic (the
\* full-width colon of the header is written ":")
CritiqueMessage(st) ==
    <<"待", "審", "查", "文", "檔", ":", "\n">> \o st["draft_analysis"]

\* revise_node: content of the HumanMessage sent to the reviser (the three
\* labelled sections of the f-string; its fixed sentences are left out)
RevisePrompt(st) ==
    <<"*", "*", "C", "r", "i", "t", "i", "q", "u", "e", " ",
      "F", "e", "e", "d", "b", "a", "c", "k", ":", "*", "*", "\n">>
    \o st["critique_feedback"]
    \o <<"\n", "*", "*", "O", "r", "i", "g", "i", "n", "a", "l", " ",
         "D", "r", "a", "f", "t", ":", "*", "*", "\n">>
    \o st["draft_analysis"]
    \o <<"\n", "*", "*", "O", "r", "i", "g", "i", "n", "a", "l", " ",
         "T", "e", "x", "t", ":", "*", "*", "\n">>
    \o st["original_text"]

\* analyst_core.py draft_node: content of the HumanMessage (its Chinese
\* label, "original text", is written "[text]:")
LegacyDraftMessage(st) ==
    <<"[text]", ":", "\n">> \o st["original_text"]

\* analyst_core.py revise_node: content of the HumanMessage sent to the
\* reviser (the two labelled sections of the f-string; their Chinese labels,
\* "review comments" and "original draft", are written "[review]:" and
\* "[draft]:")
LegacyRevisePrompt(st) ==
    <<"[review]", ":">>
    \o st["critique_feedback"]
    \o <<"\n", "[draft]", ":">>
    \o st["draft_analysis"]

\* mutants of should_continue
should_continue_off_by_one(st) ==
    IF Contains(st["critique_feedback"], LGTM) THEN END
    ELSE IF st["revision_count"] > MAX_RETRIES THEN END
    ELSE "revise"

should_continue_ignores_sentinel(st) ==
    IF st["revision_count"] >= MAX_RETRIES THEN END ELSE "revise"

\* mutant: the sentinel is looked for without regard to case
should_continue_any_case(st) ==
    IF Contains(Lower(st["critique_feedback"]), Lower(LGTM)) THEN END
    ELSE IF st["revision_count"] >= MAX_RETRIES THEN END
    ELSE "revise"

\* should_continue: the conditional edge taken after critique
should_continue(st) ==
    IF Contains(st["critique_feedback"], LGTM) THEN END
    ELSE IF st["revision_count"] >= MAX_RETRIES THEN END
    ELSE "revise"

AnalystInit ==
    /\ a_impl \in AnalystImpls
    /\ state \in InitialStates
    /\ pc = "router"
    /\ llm_calls = <<>>
    /\ produced = <<>>
    /\ steps = <<>>

AnalystIdle ==
    /\ a_impl = "product.analyst_core"
    /\ state = [original_text |-> <<>>]
    /\ pc = "END"
    /\ llm_calls = <<>>
    /\ produced = <<>>
    /\ steps = <<>>

router_node ==
    /\ pc = "router"
    /\ \E response \in RouterResponses :
          /\ state' = Merge(state, [book_type |-> RouterDecision(response)])
          /\ llm_calls' = Append(llm_calls,
                LlmCall("router", state["original_text"], response))
    /\ steps' = Append(steps, "router")
    /\ pc' = "draft"
    /\ UNCHANGED <<produced, a_impl>>

\* mutant: draft_node keeps the caller's revision_count
draft_node_keeps_count ==
    /\ pc = "draft"
    /\ a_impl = "product.analyst_core"
    /\ \E thesis \in ThesisResponses, ideas \in CoreIdeasResponses :
         \E evidence \in [1..Len(CoreIdeas(ideas)) -> EvidenceResponses] :
            LET script == DraftScript(thesis, ideas, evidence)
            IN  /\ state' = Merge(state, [draft_analysis |-> script,
                      revision_count |-> Get(state, "revision_count", 1)])
                /\ produced' = Append(produced, script)
                /\ llm_calls' = llm_calls
                     \o << LlmCall("draft", state["original_text"], thesis),
                           LlmCall("draft", state["original_text"], ideas) >>
                     \o [i \in 1..Len(CoreIdeas(ideas)) |->
                           LlmCall("draft", state["original_text"],
                                   evidence[i])]
    /\ steps' = Append(steps, "draft")
    /\ pc' = "critique"
    /\ UNCHANGED a_impl

\* analyst_core.py draft_node: one call of the model gives the draft
legacy_draft_node ==
    /\ pc = "draft"
    /\ a_impl = "analyst_core"
    /\ \E response \in LegacyDraftResponses :
          /\ state' = Merge(state, [draft_analysis |-> response,
                                    revision_count |-> 1])
          /\ produced' = Append(produced, response)
          /\ llm_calls' = Append(llm_calls,
                LlmCall("draft", LegacyDraftMessage(state), response))
    /\ steps' = Append(steps, "draft")
    /\ pc' = "critique"
    /\ UNCHANGED a_impl

\* draft_node: the initial thematic-tree draft
draft_node ==
    /\ pc = "draft"
    /\ a_impl = "product.analyst_core"
    /\ \E thesis \in ThesisResponses, ideas \in CoreIdeasResponses :
         \E evidence \in [1..Len(CoreIdeas(ideas)) -> EvidenceResponses] :
            LET script == DraftScript(thesis, ideas, evidence)
            IN  /\ state' = Merge(state, [draft_analysis |-> script,
                                          revision_count |-> 1])
                /\ produced' = Append(produced, script)
                /\ llm_calls' = llm_calls
                     \o << LlmCall("draft", state["original_text"], thesis),
                           LlmCall("draft", state["original_text"], ideas) >>
                     \o [i \in 1..Len(CoreIdeas(ideas)) |->
                           LlmCall("draft", state["original_text"],
                                   evidence[i])]
    /\ steps' = Append(steps, "draft")
    /\ pc' = "critique"
    /\ UNCHANGED a_impl

critique_node ==
    /\ pc = "critique"
    /\ \E feedback \in CriticResponses :
          /\ state' = Merge(state, [critique_feedback |-> feedback])
          /\ pc' = should_continue(state')
          /\ llm_calls' = Append(llm_calls,
                LlmCall("critique", CritiqueMessage(state), feedback))
    /\ steps' = Append(steps, "critique")
    /\ UNCHANGED <<produced, a_impl>>

\* mutant: a revision counts twice
revise_node_counts_twice ==
    /\ pc = "revise"
    /\ a_impl = "product.analyst_core"
    /\ \E response \in ReviseResponses :
          /\ state' = Merge(state,
                [draft_analysis |-> response,
                 revision_count |-> Get(state, "revision_count", 1) + 2])
          /\ produced' = Append(produced, response)
          /\ llm_calls' = Append(llm_calls,
                LlmCall("revise", RevisePrompt(state), response))
    /\ steps' = Append(steps, "revise")
    /\ pc' = "critique"
    /\ UNCHANGED a_impl

\* mutant: the edge from revise leads to END instead of critique
revise_node_ends_run ==
    /\ pc = "revise"
    /\ a_impl = "product.analyst_core"
    /\ \E response \in ReviseResponses :
          /\ state' = Merge(state,
                [draft_analysis |-> response,
                 revision_count |-> Get(state, "revision_count", 1) + 1])
          /\ produced' = Append(produced, response)
          /\ llm_calls' = Append(llm_calls,
                LlmCall("revise", RevisePrompt(state), response))
    /\ steps' = Append(steps, "revise")
    /\ pc' = END
    /\ UNCHANGED a_impl

revise_node ==
    /\ pc = "revise"
    /\ a_impl = "product.analyst_core"
    /\ \E response \in ReviseResponses :
          /\ state' = Merge(state,
                [draft_analysis |-> response,
                 revision_count |-> Get(state, "revision_count", 1) + 1])
          /\ produced' = Append(produced, response)
          /\ llm_calls' = Append(llm_calls,
                LlmCall("revise", RevisePrompt(state), response))
    /\ steps' = Append(steps, "revise")
    /\ pc' = "critique"
    /\ UNCHANGED a_impl

\* analyst_core.py revise_node
legacy_revise_node ==
    /\ pc = "revise"
    /\ a_impl = "analyst_core"
    /\ \E response \in ReviseResponses :
          /\ state' = Merge(state,
                [draft_analysis |-> response,
                 revision_count |-> Get(state, "revision_count", 1) + 1])
          /\ produced' = Append(produced, response)
          /\ llm_calls' = Append(llm_calls,
                LlmCall("revise", LegacyRevisePrompt(state), response))
    /\ steps' = Append(steps, "revise")
    /\ pc' = "critique"
    /\ UNCHANGED a_impl

\* llm.invoke raises inside a node: app.invoke propagates the exception
llm_raises ==
    /\ pc \in {"router", "draft", "critique", "revise"}
    /\ pc' = "raised"
    /\ UNCHANGED <<state, llm_calls, produced, steps, a_impl>>

AnalystNext ==
    \/ router_node
    \/ draft_node
    \/ legacy_draft_node
    \/ critique_node
    \/ revise_node
    \/ legacy_revise_node
    \/ llm_raises

(***************************************************************************)
(* Curator fallback chain: src/curator.py, class Curator                   *)
(***************************************************************************)

\* Python None where a string is expected
None == <<"<None>">>

\* topics given to search_node
Topics == { <<"B", "2", "B">>,
            <<"A", "I">>,
            <<"S", "t", "a", "r", "t", "u", "p">>,
            <<"b", "u", "s", "i", "n", "e", "s", "s">> }

\* Google Books volumes the model enumerates
VolumeA == [volumeInfo |-> [title |-> <<"A">>, authors |-> << <<"x">> >>,
                            description |-> <<"d">>, averageRating |-> 4]]
VolumeB == [volumeInfo |-> [title |-> <<"B">>]]
VolumeC == [kind |-> <<"v">>]

\* what requests.get / raise_for_status / resp.json can do
GoogleOutcomes ==
    { [kind |-> "raise", exc |-> "ConnectionError"] }
    \cup { [kind |-> "response", status |-> 429, json_ok |-> TRUE,
            data |-> [error |-> <<"q">>]] }
    \cup { [kind |-> "response", status |-> 200, json_ok |-> FALSE,
            data |-> [error |-> <<"q">>]] }
    \cup { [kind |-> "response", status |-> 200, json_ok |-> TRUE, data |-> d] :
           d \in { [error |-> <<"q">>],
                   [items |-> <<>>],
                   [items |-> <<VolumeA>>],
                   [items |-> <<VolumeB, VolumeC>>] } }

\* what TavilyClient(...).search can do
TavilyOutcomes ==
    { [kind |-> "raise", exc |-> "TavilyError"] }
    \cup { [kind |-> "response", data |-> d] :
           d \in { [answer |-> <<"n">>],
                   [results |-> <<>>],
                   [results |-> << [title |-> <<"T">>, content |-> <<"c">>,
                                    url |-> <<"u">>] >>],
                   [results |-> << [title |-> <<"T">>, content |-> <<"c">>],
                                   [url |-> <<"u">>] >>] } }

\* search_node: the query built from the topic
SearchQuery(topic) ==
    IF \/ Contains(Lower(topic), <<"s", "t", "a", "r", "t", "u", "p">>)
       \/ Contains(Lower(topic), <<"b", "u", "s", "i", "n", "e", "s", "s">>)
    THEN topic
    ELSE topic \o <<" ", "b", "o", "o", "k">>

\* Curator._search_google_books: one book dict per item
GoogleBook(item) ==
    LET info == IF "volumeInfo" \in DOMAIN item
                THEN item["volumeInfo"] ELSE <<>>
    IN  [title         |-> Get(info, "title", None),
         authors       |-> Get(info, "authors", <<>>),
         publisher     |-> Get(info, "publisher",
                               <<"U", "n", "k", "n", "o", "w", "n", " ",
                                 "P", "u", "b", "l", "i", "s", "h", "e", "r">>),
         publishedDate |-> Get(info, "publishedDate",
                               <<"U", "n", "k", "n", "o", "w", "n", " ",
                                 "D", "a", "t", "e">>),
         description   |-> Get(info, "description", <<>>),
         rating        |-> Get(info, "averageRating", 0),
         ratingsCount  |-> Get(info, "ratingsCount", 0)]

\* mutant: the HTTP status is not checked (no raise_for_status)
search_google_books_unchecked_status(outcome) ==
    IF outcome.kind = "raise" THEN [ok |-> FALSE, exc |-> outcome.exc]
    ELSE IF ~outcome.json_ok THEN [ok |-> FALSE, exc |-> "JSONDecodeError"]
    ELSE IF "items" \in DOMAIN outcome.data
         THEN [ok |-> TRUE,
               books |-> [i \in 1..Len(outcome.data["items"]) |->
                            GoogleBook(outcome.data["items"][i])]]
         ELSE [ok |-> TRUE, books |-> <<>>]

\* Curator._search_google_books: the books returned or the exception raised
search_google_books(outcome) ==
    IF outcome.kind = "raise" THEN [ok |-> FALSE, exc |-> outcome.exc]
    ELSE IF outcome.status >= 400 /\ outcome.status < 600
         THEN [ok |-> FALSE, exc |-> "HTTPError"]
    ELSE IF ~outcome.json_ok THEN [ok |-> FALSE, exc |-> "JSONDecodeError"]
    ELSE IF "items" \in DOMAIN outcome.data
         THEN [ok |-> TRUE,
               books |-> [i \in 1..Len(outcome.data["items"]) |->
                            GoogleBook(outcome.data["items"][i])]]
         ELSE [ok |-> TRUE, books |-> <<>>]

\* Curator._adapt_tavily_results
adapt_tavily_results(results) ==
    IF "results" \in DOMAIN results
    THEN [i \in 1..Len(results["results"]) |->
            [title       |-> Get(results["results"][i], "title", None),
             authors     |-> << <<"N", "/", "A">> >>,
             description |-> Get(results["results"][i], "content", None)]]
    ELSE <<>>

\* Curator._fallback_to_tavily: the query sent to Tavily
TavilyQuery(query) ==
    <<"b", "e", "s", "t", " ", "b", "o", "o", "k", "s", " ", "o", "n", " ">>
    \o query

ProviderCall(provider, query, outcome) ==
    [provider |-> provider, query |-> query, outcome |-> outcome]

\* src/curator.py search_google_books: one book dict per item
LegacyGoogleBook(item) ==
    LET info == IF "volumeInfo" \in DOMAIN item
                THEN item["volumeInfo"] ELSE <<>>
    IN  [title        |-> Get(info, "title", None),
         authors      |-> Get(info, "authors", <<>>),
         description  |-> Get(info, "description", <<>>),
         rating       |-> Get(info, "averageRating", 0),
         ratingsCount |-> Get(info, "ratingsCount", 0)]

\* src/curator.py search_google_books: any exception gives [], the HTTP
\* status is not looked at
legacy_search_google_books(outcome) ==
    IF outcome.kind = "raise" THEN <<>>
    ELSE IF ~outcome.json_ok THEN <<>>
    ELSE IF "items" \in DOMAIN outcome.data
         THEN [i \in 1..Len(outcome.data["items"]) |->
                 LegacyGoogleBook(outcome.data["items"][i])]
         ELSE <<>>

\* the two search paths in the sources
Impls == {"Curator.search", "search_google_books"}

CuratorInit ==
    /\ c_impl \in Impls
    /\ c_topic \in Topics
    /\ c_query = <<>>
    /\ c_pc = "search_node"
    /\ c_calls = <<>>
    /\ c_result = <<>>
    /\ c_error = "none"

CuratorIdle ==
    /\ c_impl = "Curator.search"
    /\ c_topic = <<>>
    /\ c_query = <<>>
    /\ c_pc = "idle"
    /\ c_calls = <<>>
    /\ c_result = <<>>
    /\ c_error = "none"

\* search_node up to its call of Curator.search
search_node ==
    /\ c_pc = "search_node"
    /\ c_impl = "Curator.search"
    /\ c_query' = SearchQuery(c_topic)
    /\ c_pc' = "try"
    /\ UNCHANGED <<c_impl, c_topic, c_calls, c_result, c_error>>

\* src/curator.py search_node: the query, then search_google_books alone
legacy_search_node ==
    /\ c_pc = "search_node"
    /\ c_impl = "search_google_books"
    /\ c_query' = SearchQuery(c_topic)
    /\ \E outcome \in GoogleOutcomes :
         /\ c_calls' = Append(c_calls,
               ProviderCall("google_books", SearchQuery(c_topic), outcome))
         /\ c_result' = legacy_search_google_books(outcome)
    /\ c_pc' = "returned"
    /\ UNCHANGED <<c_impl, c_topic, c_error>>

\* Curator.search, try branch: the primary provider
search_try ==
    /\ c_pc = "try"
    /\ \E outcome \in GoogleOutcomes :
         LET r == search_google_books(outcome)
         IN  /\ c_calls' = Append(c_calls,
                     ProviderCall("google_books", c_query, outcome))
             /\ IF r.ok
                THEN /\ c_result' = r.books
                     /\ c_pc' = "returned"
                     /\ UNCHANGED c_error
                ELSE /\ c_error' = r.exc
                     /\ c_pc' = "except"
                     /\ UNCHANGED c_result
    /\ UNCHANGED <<c_impl, c_topic, c_query>>

\* mutant: the except branch returns nothing instead of asking Tavily
search_except_gives_up ==
    /\ c_pc = "except"
    /\ c_result' = <<>>
    /\ c_pc' = "returned"
    /\ UNCHANGED <<c_impl, c_topic, c_query, c_calls, c_error>>

\* Curator.search, except branch: fall back to Tavily
search_except ==
    /\ c_pc = "except"
    /\ \E outcome \in TavilyOutcomes :
         /\ c_calls' = Append(c_calls,
                 ProviderCall("tavily", TavilyQuery(c_query), outcome))
         /\ IF outcome.kind = "raise"
            THEN /\ c_error' = outcome.exc
                 /\ c_pc' = "raised"
                 /\ UNCHANGED c_result
            ELSE /\ c_result' = adapt_tavily_results(outcome.data)
                 /\ c_pc' = "returned"
                 /\ UNCHANGED c_error
    /\ UNCHANGED <<c_impl, c_topic, c_query>>

CuratorNext ==
    \/ search_node
    \/ legacy_search_node
    \/ search_try
    \/ search_except

(***************************************************************************)
(* Manager circuit breaker: studio/manager.py, class ManagerAgent          *)
(***************************************************************************)

MAX_OPTIMIZATION_RETRIES == 3

\* trigger_recovery: the component the recovery targets
target_component == "product/analyst_core.py"

\* bound on the number of trigger_recovery calls of one behaviour
MaxTriggerCalls == 10

FailureTypes == {"quality", "logic", "network"}

\* exit codes of the studio.optimizer subprocess (run without check=True)
OptimizerExitCodes == {0, 1}

ManagerInit ==
    /\ optimization_attempts = <<>>
    /\ optimizer_runs = 0
    /\ m_calls = 0
    /\ m_last = [failure_type |-> "none", did |-> "none", exit |-> 0]

\* mutant: the breaker compares with > instead of >=
trigger_recovery_late_trip(failure_type) ==
    /\ m_calls < MaxTriggerCalls
    /\ m_calls' = m_calls + 1
    /\ IF failure_type = "quality"
       THEN LET current_retries ==
                    Get(optimization_attempts, target_component, 0)
            IN  IF current_retries > MAX_OPTIMIZATION_RETRIES
                THEN /\ m_last' = [failure_type |-> failure_type,
                                   did |-> "tripped", exit |-> 0]
                     /\ UNCHANGED <<optimization_attempts, optimizer_runs>>
                ELSE \E code \in OptimizerExitCodes :
                       /\ optimizer_runs' = optimizer_runs + 1
                       /\ optimization_attempts' =
                            (target_component :> (current_retries + 1))
                            @@ optimization_attempts
                       /\ m_last' = [failure_type |-> failure_type,
                                     did |-> "optimizer", exit |-> code]
       ELSE /\ m_last' = [failure_type |-> failure_type,
                          did |-> "nothing", exit |-> 0]
            /\ UNCHANGED <<optimization_attempts, optimizer_runs>>

\* mutant: the counter is cleared when the breaker trips
trigger_recovery_auto_reset(failure_type) ==
    /\ m_calls < MaxTriggerCalls
    /\ m_calls' = m_calls + 1
    /\ IF failure_type = "quality"
       THEN LET current_retries ==
                    Get(optimization_attempts, target_component, 0)
            IN  IF current_retries >= MAX_OPTIMIZATION_RETRIES
                THEN /\ m_last' = [failure_type |-> failure_type,
                                   did |-> "tripped", exit |-> 0]
                     /\ optimization_attempts' =
                            (target_component :> 0) @@ optimization_attempts
                     /\ UNCHANGED optimizer_runs
                ELSE \E code \in OptimizerExitCodes :
                       /\ optimizer_runs' = optimizer_runs + 1
                       /\ optimization_attempts' =
                            (target_component :> (current_retries + 1))
                            @@ optimization_attempts
                       /\ m_last' = [failure_type |-> failure_type,
                                     did |-> "optimizer", exit |-> code]
       ELSE /\ m_last' = [failure_type |-> failure_type,
                          did |-> "nothing", exit |-> 0]
            /\ UNCHANGED <<optimization_attempts, optimizer_runs>>

\* mutant: only an optimizer run that failed is counted
trigger_recovery_counts_failures(failure_type) ==
    /\ m_calls < MaxTriggerCalls
    /\ m_calls' = m_calls + 1
    /\ IF failure_type = "quality"
       THEN LET current_retries ==
                    Get(optimization_attempts, target_component, 0)
            IN  IF current_retries >= MAX_OPTIMIZATION_RETRIES
                THEN /\ m_last' = [failure_type |-> failure_type,
                                   did |-> "tripped", exit |-> 0]
                     /\ UNCHANGED <<optimization_attempts, optimizer_runs>>
                ELSE \E code \in OptimizerExitCodes :
                       /\ optimizer_runs' = optimizer_runs + 1
                       /\ optimization_attempts' =
                            (target_component :>
                               (current_retries + IF code = 0 THEN 0 ELSE 1))
                            @@ optimization_attempts
                       /\ m_last' = [failure_type |-> failure_type,
                                     did |-> "optimizer", exit |-> code]
       ELSE /\ m_last' = [failure_type |-> failure_type,
                          did |-> "nothing", exit |-> 0]
            /\ UNCHANGED <<optimization_attempts, optimizer_runs>>

\* mutant: a call with another failure type is counted as an attempt too
trigger_recovery_counts_every_call(failure_type) ==
    /\ m_calls < MaxTriggerCalls
    /\ m_calls' = m_calls + 1
    /\ IF failure_type = "quality"
       THEN LET current_retries ==
                    Get(optimization_attempts, target_component, 0)
            IN  IF current_retries >= MAX_OPTIMIZATION_RETRIES
                THEN /\ m_last' = [failure_type |-> failure_type,
                                   did |-> "tripped", exit |-> 0]
                     /\ UNCHANGED <<optimization_attempts, optimizer_runs>>
                ELSE \E code \in OptimizerExitCodes :
                       /\ optimizer_runs' = optimizer_runs + 1
                       /\ optimization_attempts' =
                            (target_component :> (current_retries + 1))
                            @@ optimization_attempts
                       /\ m_last' = [failure_type |-> failure_type,
                                     did |-> "optimizer", exit |-> code]
       ELSE /\ m_last' = [failure_type |-> failure_type,
                          did |-> "nothing", exit |-> 0]
            /\ optimization_attempts' =
                 (target_component :>
                    (Get(optimization_attempts, target_component, 0) + 1))
                 @@ optimization_attempts
            /\ UNCHANGED optimizer_runs

\* ManagerAgent.trigger_recovery
trigger_recovery(failure_type) ==
    /\ m_calls < MaxTriggerCalls
    /\ m_calls' = m_calls + 1
    /\ IF failure_type = "quality"
       THEN LET current_retries ==
                    Get(optimization_attempts, target_component, 0)
            IN  IF current_retries >= MAX_OPTIMIZATION_RETRIES
                THEN /\ m_last' = [failure_type |-> failure_type,
                                   did |-> "tripped", exit |-> 0]
                     /\ UNCHANGED <<optimization_attempts, optimizer_runs>>
                ELSE \E code \in OptimizerExitCodes :
                       /\ optimizer_runs' = optimizer_runs + 1
                       /\ optimization_attempts' =
                            (target_component :> (current_retries + 1))
                            @@ optimization_attempts
                       /\ m_last' = [failure_type |-> failure_type,
                                     did |-> "optimizer", exit |-> code]
       ELSE /\ m_last' = [failure_type |-> failure_type,
                          did |-> "nothing", exit |-> 0]
            /\ UNCHANGED <<optimization_attempts, optimizer_runs>>

ManagerNext == \E failure_type \in FailureTypes : trigger_recovery(failure_type)

(***************************************************************************)
(* trigger_recovery called from several threads on one ManagerAgent.  The  *)
(* method takes no lock; a thread can be suspended between its statements, *)
(* and subprocess.run blocks while the other threads go on.                *)
(***************************************************************************)

Threads == {1, 2}

ThreadsInit ==
    /\ t_pc = [t \in Threads |-> "idle"]
    /\ t_retries = [t \in Threads |-> 0]

\* lines 77-86: the breaker check of one call
recovery_check(t, failure_type) ==
    /\ t_pc[t] = "idle"
    /\ m_calls < MaxTriggerCalls
    /\ m_calls' = m_calls + 1
    /\ IF failure_type = "quality"
       THEN LET current_retries ==
                    Get(optimization_attempts, target_component, 0)
            IN  IF current_retries >= MAX_OPTIMIZATION_RETRIES
                THEN /\ m_last' = [failure_type |-> failure_type,
                                   did |-> "tripped", exit |-> 0]
                     /\ UNCHANGED <<t_pc, t_retries>>
                ELSE /\ t_retries' = [t_retries EXCEPT ![t] = current_retries]
                     /\ t_pc' = [t_pc EXCEPT ![t] = "optimizer"]
                     /\ UNCHANGED m_last
       ELSE /\ m_last' = [failure_type |-> failure_type,
                          did |-> "nothing", exit |-> 0]
            /\ UNCHANGED <<t_pc, t_retries>>
    /\ UNCHANGED <<optimization_attempts, optimizer_runs>>

\* line 88: the optimizer subprocess of one call
recovery_optimizer(t) ==
    /\ t_pc[t] = "optimizer"
    /\ \E code \in OptimizerExitCodes :
         m_last' = [failure_type |-> "quality",
                    did |-> "optimizer", exit |-> code]
    /\ optimizer_runs' = optimizer_runs + 1
    /\ t_pc' = [t_pc EXCEPT ![t] = "store"]
    /\ UNCHANGED <<optimization_attempts, m_calls, t_retries>>

\* line 89: the counter is written from the value read at line 79
recovery_store(t) ==
    /\ t_pc[t] = "store"
    /\ optimization_attempts' =
            (target_component :> (t_retries[t] + 1)) @@ optimization_attempts
    /\ t_pc' = [t_pc EXCEPT ![t] = "idle"]
    /\ UNCHANGED <<optimizer_runs, m_calls, m_last, t_retries>>

ThreadsNext ==
    \E t \in Threads :
        \/ \E failure_type \in FailureTypes : recovery_check(t, failure_type)
        \/ recovery_optimizer(t)
        \/ recovery_store(t)

(***************************************************************************)
(* Manager daemon: studio/manager.py, main and ManagerAgent.autopilot_loop *)
(* Times are seconds; the clock moves while the review agent subprocess    *)
(* runs and while the loop sleeps.                                         *)
(***************************************************************************)

\* bound on the number of loop iterations of one behaviour
MaxIterations == 3

health_check_interval == 3600

\* what time.time() gives when the process starts
StartTimes == {0, 100, 5000}

\* seconds between two readings of the clock
Elapsed == {60, 3540, 3600, 3601}

PullOutcomes == {"ok", "CalledProcessError", "FileNotFoundError"}

DaemonInit ==
    /\ d_entry \in {"main", "autopilot_loop"}
    /\ d_run_now \in BOOLEAN
    /\ d_run_once \in IF d_entry = "main" THEN {FALSE} ELSE BOOLEAN
    /\ d_pc = IF d_entry = "main" THEN "git_pull" ELSE "standup"
    /\ d_exit = -1
    /\ d_pull = "none"
    /\ d_clock \in StartTimes
    /\ d_now = 0
    /\ d_last_check_time = 0
    /\ d_iters = <<>>

DaemonIdle ==
    /\ d_entry = "none"
    /\ d_run_now = FALSE
    /\ d_run_once = FALSE
    /\ d_pc = "idle"
    /\ d_exit = -1
    /\ d_pull = "none"
    /\ d_clock = 0
    /\ d_now = 0
    /\ d_last_check_time = 0
    /\ d_iters = <<>>

\* mutant: a failed pull is logged and the manager goes on
git_pull_goes_on ==
    /\ d_pc = "git_pull"
    /\ \E outcome \in PullOutcomes :
         /\ d_pull' = outcome
         /\ d_pc' = "standup"
         /\ UNCHANGED d_exit
    /\ UNCHANGED <<d_entry, d_run_now, d_run_once, d_clock, d_now,
                   d_last_check_time, d_iters>>

\* main: subprocess.run(['git', 'pull'], check=True, ...); sys.exit(1) on
\* CalledProcessError and on FileNotFoundError, else ManagerAgent() and
\* autopilot_loop()
git_pull ==
    /\ d_pc = "git_pull"
    /\ \E outcome \in PullOutcomes :
         /\ d_pull' = outcome
         /\ IF outcome = "ok"
            THEN d_pc' = "standup" /\ UNCHANGED d_exit
            ELSE d_pc' = "exited" /\ d_exit' = 1
    /\ UNCHANGED <<d_entry, d_run_now, d_run_once, d_clock, d_now,
                   d_last_check_time, d_iters>>

\* where the loop goes after an iteration: 'if run_once: return', and the
\* process ends with status 0 when autopilot_loop returns
AfterIteration == IF d_run_once THEN "exited" ELSE "standup"

\* what an iteration did: whether it reached the health check decision, the
\* clock and last_check_time it saw, whether run_health_check was called
\* and whether last_check_time was assigned
IterationRecord(reached) ==
    [reached |-> reached, clock |-> d_clock', last |-> d_last_check_time,
     forced |-> d_run_now, checked |-> FALSE, set |-> FALSE]

\* mutant: the check is due from 3600 seconds on
standup_checks_at_interval ==
    /\ d_pc = "standup"
    /\ Len(d_iters) < MaxIterations
    /\ \E e \in Elapsed : d_clock' = d_clock + e
    /\ \E outcome \in {"returned", "Exception", "KeyboardInterrupt"} :
         IF outcome = "returned"
         THEN LET now == d_clock'
                  is_time_to_check ==
                      (now - d_last_check_time) >= health_check_interval
                  is_forced_run == d_run_now
              IN  /\ d_now' = now
                  /\ d_iters' = Append(d_iters, IterationRecord(TRUE))
                  /\ d_pc' = IF is_time_to_check \/ is_forced_run
                             THEN "health" ELSE "sleep"
                  /\ UNCHANGED d_exit
         ELSE /\ d_iters' = Append(d_iters, IterationRecord(FALSE))
              /\ UNCHANGED d_now
              /\ IF outcome = "Exception"
                 THEN /\ d_pc' = AfterIteration
                      /\ d_exit' = IF d_run_once THEN 0 ELSE d_exit
                 ELSE d_pc' = "exited" /\ d_exit' = 0
    /\ UNCHANGED <<d_entry, d_run_now, d_run_once, d_pull, d_last_check_time>>

\* autopilot_loop, lines 105-117: the review agent subprocess (check=False),
\* now = time.time() and the decision.  An exception of the subprocess call
\* is logged, the loop sleeps 60 seconds and goes to the next iteration; a
\* KeyboardInterrupt ends the loop.
standup ==
    /\ d_pc = "standup"
    /\ Len(d_iters) < MaxIterations
    /\ \E e \in Elapsed : d_clock' = d_clock + e
    /\ \E outcome \in {"returned", "Exception", "KeyboardInterrupt"} :
         IF outcome = "returned"
         THEN LET now == d_clock'
                  is_time_to_check ==
                      (now - d_last_check_time) > health_check_interval
                  is_forced_run == d_run_now
              IN  /\ d_now' = now
                  /\ d_iters' = Append(d_iters, IterationRecord(TRUE))
                  /\ d_pc' = IF is_time_to_check \/ is_forced_run
                             THEN "health" ELSE "sleep"
                  /\ UNCHANGED d_exit
         ELSE /\ d_iters' = Append(d_iters, IterationRecord(FALSE))
              /\ UNCHANGED d_now
              /\ IF outcome = "Exception"
                 THEN /\ d_pc' = AfterIteration
                      /\ d_exit' = IF d_run_once THEN 0 ELSE d_exit
                 ELSE d_pc' = "exited" /\ d_exit' = 0
    /\ UNCHANGED <<d_entry, d_run_now, d_run_once, d_pull, d_last_check_time>>

\* lines 118-119: run_health_check(), which catches every Exception of the
\* product run, then last_check_time = now; a KeyboardInterrupt during the
\* check ends the loop before the assignment
health_check ==
    /\ d_pc = "health"
    /\ \E outcome \in {"passed", "failed", "KeyboardInterrupt"} :
         IF outcome = "KeyboardInterrupt"
         THEN /\ d_iters' = [d_iters EXCEPT ![Len(d_iters)].checked = TRUE]
              /\ d_pc' = "exited" /\ d_exit' = 0
              /\ UNCHANGED d_last_check_time
         ELSE /\ d_iters' = [d_iters EXCEPT ![Len(d_iters)].checked = TRUE,
                                            ![Len(d_iters)].set = TRUE]
              /\ d_last_check_time' = d_now
              /\ d_pc' = "sleep"
              /\ UNCHANGED d_exit
    /\ UNCHANGED <<d_entry, d_run_now, d_run_once, d_pull, d_clock, d_now>>

\* lines 121-132: time.sleep(60), then 'if run_once: return'
sleep ==
    /\ d_pc = "sleep"
    /\ \E interrupted \in BOOLEAN :
         IF interrupted
         THEN d_pc' = "exited" /\ d_exit' = 0
         ELSE /\ d_pc' = AfterIteration
              /\ d_exit' = IF d_run_once THEN 0 ELSE d_exit
    /\ UNCHANGED <<d_entry, d_run_now, d_run_once, d_pull, d_clock, d_now,
                   d_last_check_time, d_iters>>

DaemonNext ==
    \/ git_pull
    \/ standup
    \/ health_check
    \/ sleep

(***************************************************************************)
(* Review Agent gate pipeline: studio/review_agent.py, class ReviewAgent   *)
(***************************************************************************)

\* bound on the length of open_prs
MaxPRs == 2

\* the marker check_copilot_compliance looks for ("<robot>" is the emoji)
CopilotLogHeader ==
    <<"#", "#", " ", "<robot>", " ", "C", "o", "p", "i", "l", "o", "t", " ",
      "C", "o", "n", "s", "u", "l", "t", "a", "t", "i", "o", "n", " ",
      "L", "o", "g">>

\* PR descriptions the model enumerates
Bodies == { None,
            <<"f", "i", "x">>,
            <<"x", "\n">> \o CopilotLogHeader \o <<"\n", "y">> }

PRKinds == [body : Bodies, draft : BOOLEAN]

PRLists == UNION { [1..n -> PRKinds] : n \in 0..MaxPRs }

\* ReviewAgent.check_copilot_compliance
check_copilot_compliance(pr) ==
    IF pr.body = None \/ pr.body = <<>> THEN FALSE
    ELSE Contains(pr.body, CopilotLogHeader)

\* JSON documents the model may answer with, as json.loads reads them;
\* values are kept as JSON literals (double quotes are written ')
JsonDocs ==
    ( "{'approved': true, 'comments': 'ok'}" :>
          [is_dict |-> TRUE,
           dict |-> [approved |-> "true", comments |-> "'ok'"]] )
    @@ ( "{'approved': false, 'comments': 'bug'}" :>
          [is_dict |-> TRUE,
           dict |-> [approved |-> "false", comments |-> "'bug'"]] )
    @@ ( "{'comments': 'hm'}" :>
          [is_dict |-> TRUE, dict |-> [comments |-> "'hm'"]] )
    @@ ( "{'approved': null}" :>
          [is_dict |-> TRUE, dict |-> [approved |-> "null"]] )
    @@ ( "[]" :> [is_dict |-> FALSE, dict |-> <<>>] )
    @@ ( "{'score': -1.0, 'summary': 'bad'}" :>
          [is_dict |-> TRUE,
           dict |-> [score |-> "-1.0", summary |-> "'bad'"]] )
    @@ ( "{'score': 0.8, 'summary': 'good'}" :>
          [is_dict |-> TRUE,
           dict |-> [score |-> "0.8", summary |-> "'good'"]] )
    @@ ( "{'score': 8.5, 'reason': 'known expert'}" :>
          [is_dict |-> TRUE,
           dict |-> [score |-> "8.5", reason |-> "'known expert'"]] )
    @@ ( "{'score': 6.0, 'reason': 'fine'}" :>
          [is_dict |-> TRUE,
           dict |-> [score |-> "6.0", reason |-> "'fine'"]] )
    @@ ( "[{'speaker': 'A', 'text': 'hi'}]" :>
          [is_dict |-> FALSE, dict |-> <<>>] )
    @@ ( "{'speaker': 'A', 'text': 'hi'}" :>
          [is_dict |-> TRUE, dict |-> [speaker |-> "'A'", text |-> "'hi'"]] )

\* the tokens that hold braces, with the text from their first opening to
\* their last closing brace
BraceSpan ==
    [t \in { d \in DOMAIN JsonDocs : JsonDocs[d].is_dict } |-> t]
    @@ ( "[{'speaker': 'A', 'text': 'hi'}]" :>
           "{'speaker': 'A', 'text': 'hi'}" )

\* model answers: sequences of tokens (a fence, white space, a JSON document
\* or other text); "[fence]" stands for the three backquotes of a code fence
ReviewContents ==
    { <<"{'approved': true, 'comments': 'ok'}">>,
      <<"[fence]json", "\n", "{'approved': false, 'comments': 'bug'}",
        "\n", "[fence]", "\n">>,
      <<"[fence]", "\n", "{'approved': false, 'comments': 'bug'}",
        "\n", "[fence]">>,
      <<"{'comments': 'hm'}">>,
      <<"{'approved': null}">>,
      <<"[]">>,
      <<"Looks", " ", "fine">> }

\* what can happen inside review_code_llm once self.llm is set
ReviewOutcomes ==
    { [kind |-> "git_raises"], [kind |-> "empty_diff"],
      [kind |-> "llm_raises"] }
    \cup { [kind |-> "content", content |-> c] : c \in ReviewContents }

\* review_code_llm: the clean-up of code fences before json.loads
CleanFences(content) ==
    LET c0 == Strip(content)
        c1 == IF c0 # <<>> /\ c0[1] = "[fence]json" THEN Tail(c0) ELSE c0
        c2 == IF c1 # <<>> /\ c1[Len(c1)] = "[fence]"
              THEN SubSeq(c1, 1, Len(c1) - 1) ELSE c1
    IN  Strip(c2)

\* json.loads on a token sequence
JsonLoads(tokens) ==
    IF Len(Strip(tokens)) = 1 /\ Strip(tokens)[1] \in DOMAIN JsonDocs
    THEN [ok |-> TRUE, value |-> JsonDocs[Strip(tokens)[1]]]
    ELSE [ok |-> FALSE, value |-> [is_dict |-> FALSE, dict |-> <<>>]]

\* the dict review_code_llm returns when it fails open
FailOpen(comments) ==
    [is_dict |-> TRUE, dict |-> [approved |-> "true", comments |-> comments]]

\* ReviewAgent.review_code_llm: the value returned
review_code_llm(llm, outcome) ==
    IF ~llm THEN FailOpen("Skipped AI review (LLM not configured).")
    ELSE IF outcome.kind = "empty_diff"
         THEN FailOpen("No code changes detected.")
    ELSE IF outcome.kind \in {"git_raises", "llm_raises"}
         THEN FailOpen("AI Review failed due to internal error")
    ELSE IF JsonLoads(CleanFences(outcome.content)).ok
         THEN JsonLoads(CleanFences(outcome.content)).value
         ELSE FailOpen("AI Review failed due to internal error")

\* Python truth value of a JSON literal
Truthy(literal) == literal \notin {"false", "null", "0", "''", "[]", "{}"}

\* what the pytest subprocess can give: return code and the traits of its
\* output that analyze_failure reads
PytestOutcomes ==
    { [returncode |-> 0, test_file |-> "", e_line |-> ""] }
    \cup { [returncode |-> 1, test_file |-> f, e_line |-> e] :
           f \in {"", "curator"},
           e \in {"", "Failed: DID NOT RAISE APITimeout"} }

\* ReviewAgent.analyze_failure
analyze_failure(out, pr_id) ==
    [pr_id      |-> pr_id,
     component  |-> IF out.test_file = "" THEN "Unknown" ELSE "Curator",
     root_cause |-> IF out.e_line = "" THEN "Could not determine root cause"
                    ELSE out.e_line,
     error_type |-> IF out.e_line = "Failed: DID NOT RAISE APITimeout"
                    THEN "APITimeout Handling Error"
                    ELSE "Generic Test Failure"]

NoAnalysis ==
    [pr_id |-> 0, component |-> "", root_cause |-> "", error_type |-> ""]

\* mutant: the decision does not look at the test result
Decision_ignores_tests(compliance_ok, ai_approved, tests_passed, draft, hist_on) ==
    IF compliance_ok /\ ai_approved
    THEN IF draft THEN "cleanup" ELSE "merge"
    ELSE IF ~tests_passed /\ hist_on THEN "history" ELSE "comment"

\* mutant: a draft is merged like any other PR
Decision_merges_drafts(compliance_ok, ai_approved, tests_passed, draft, hist_on) ==
    IF compliance_ok /\ ai_approved /\ tests_passed
    THEN "merge"
    ELSE IF ~tests_passed /\ hist_on THEN "history" ELSE "comment"

\* mutant: a draft whose gates all passed gets the failure comment
Decision_comments_on_drafts(compliance_ok, ai_approved, tests_passed, draft, hist_on) ==
    IF compliance_ok /\ ai_approved /\ tests_passed
    THEN IF draft THEN "comment" ELSE "merge"
    ELSE IF ~tests_passed /\ hist_on THEN "history" ELSE "comment"

\* process_open_prs, decision logic: the next operation after the gates
Decision(compliance_ok, ai_approved, tests_passed, draft, hist_on) ==
    IF compliance_ok /\ ai_approved /\ tests_passed
    THEN IF draft THEN "cleanup" ELSE "merge"
    ELSE IF ~tests_passed /\ hist_on THEN "history" ELSE "comment"

\* process_open_prs: the sections of the consolidated comment
FeedbackParts(local) ==
    (IF ~local.compliance_ok THEN <<"Compliance Violation">> ELSE <<>>)
    \o (IF ~local.ai_approved THEN <<"AI Code Review">> ELSE <<>>)
    \o (IF ~local.tests_passed THEN <<"Test Failures", "Analysis">> ELSE <<>>)

\* the locals of one loop iteration before anything is assigned, with what
\* the iteration has brought about so far: returncode is pytest's (-1 before
\* it ran), merged tells whether pr.merge returned, posted holds the comments
\* that create_issue_comment accepted, logged the messages that the two
\* except clauses gave to logging.error
NoLocals ==
    [compliance_ok |-> FALSE, review_result |-> <<>>, ai_approved |-> FALSE,
     tests_passed |-> FALSE, analysis |-> NoAnalysis,
     returncode |-> -1, merged |-> FALSE, posted |-> <<>>, logged |-> <<>>]

\* except subprocess.CalledProcessError / except Exception
GitCommandFailed == "Git command failed"
UnexpectedError == "An unexpected error occurred"

\* per PR, over the whole run: calls of pr.merge, calls of
\* pr.create_issue_comment, runs of the cleanup
NoStats == [merges |-> 0, comment_calls |-> 0, cleanups |-> 0]

\* the log file as it is before the run
OldHistory == << [pr_id |-> 0, component |-> "Old", root_cause |-> "",
                  error_type |-> ""] >>

ReviewInit ==
    /\ r_prs \in PRLists
    /\ r_llm \in BOOLEAN
    /\ r_hist_on \in BOOLEAN
    /\ r_i = 1
    /\ r_pc = "start"
    /\ r_local = NoLocals
    /\ r_trace = <<>>
    /\ r_stats = [i \in 1..Len(r_prs) |-> NoStats]
    /\ r_history = OldHistory

ReviewIdle ==
    /\ r_prs = <<>>
    /\ r_llm = FALSE
    /\ r_hist_on = FALSE
    /\ r_i = 1
    /\ r_pc = "done"
    /\ r_local = NoLocals
    /\ r_trace = <<>>
    /\ r_stats = <<>>
    /\ r_history = OldHistory

\* process_open_prs: entry, the empty-list check
process_start ==
    /\ r_pc = "start"
    /\ r_pc' = IF r_prs = <<>> THEN "done" ELSE "fetch"
    /\ UNCHANGED <<r_prs, r_llm, r_hist_on, r_i, r_local, r_trace, r_stats,
                   r_history>>

\* mutant: a failing fetch is not caught and ends process_open_prs
fetch_pr_aborts_run ==
    /\ r_pc = "fetch"
    /\ r_trace' = Append(r_trace, "fetch")
    /\ \E ok \in BOOLEAN :
         IF ok
         THEN r_pc' = "checkout" /\ UNCHANGED r_local
         ELSE /\ r_pc' = "done"
              /\ r_local' = [r_local EXCEPT
                      !.logged = Append(@, GitCommandFailed)]
    /\ UNCHANGED <<r_prs, r_llm, r_hist_on, r_i, r_stats, r_history>>

\* git fetch origin pull/N/head:pr-N (check=True)
fetch_pr ==
    /\ r_pc = "fetch"
    /\ r_trace' = Append(r_trace, "fetch")
    /\ \E ok \in BOOLEAN :
         IF ok
         THEN r_pc' = "checkout" /\ UNCHANGED r_local
         ELSE /\ r_pc' = "cleanup"
              /\ r_local' = [r_local EXCEPT
                      !.logged = Append(@, GitCommandFailed)]
    /\ UNCHANGED <<r_prs, r_llm, r_hist_on, r_i, r_stats, r_history>>

\* mutant: a failing checkout is logged and the gates run all the same
checkout_pr_goes_on ==
    /\ r_pc = "checkout"
    /\ \E ok \in BOOLEAN :
         /\ r_trace' = r_trace \o <<"checkout", "compliance">>
         /\ r_local' = [r_local EXCEPT
                !.compliance_ok = check_copilot_compliance(r_prs[r_i]),
                !.logged = IF ok THEN @ ELSE Append(@, GitCommandFailed)]
         /\ r_pc' = "review"
    /\ UNCHANGED <<r_prs, r_llm, r_hist_on, r_i, r_stats, r_history>>

\* git checkout pr-N (check=True), then the compliance check
checkout_pr ==
    /\ r_pc = "checkout"
    /\ \E ok \in BOOLEAN :
         IF ok
         THEN /\ r_trace' = r_trace \o <<"checkout", "compliance">>
              /\ r_local' = [r_local EXCEPT !.compliance_ok =
                                check_copilot_compliance(r_prs[r_i])]
              /\ r_pc' = "review"
         ELSE /\ r_trace' = Append(r_trace, "checkout")
              /\ r_pc' = "cleanup"
              /\ r_local' = [r_local EXCEPT
                      !.logged = Append(@, GitCommandFailed)]
    /\ UNCHANGED <<r_prs, r_llm, r_hist_on, r_i, r_stats, r_history>>

\* review_code_llm(pr) and ai_approved = review_result.get('approved', True);
\* a result that is no dict makes .get raise, which ends the PR's processing
ai_review ==
    /\ r_pc = "review"
    /\ \E outcome \in IF r_llm THEN ReviewOutcomes ELSE {[kind |-> "no_llm"]} :
         LET result == review_code_llm(r_llm, outcome)
             invoked == IF outcome.kind \in {"llm_raises", "content"}
                        THEN <<"ai_review", "llm_invoke">>
                        ELSE <<"ai_review">>
         IN  /\ r_trace' = r_trace \o invoked
             /\ IF result.is_dict
                THEN /\ r_local' = [r_local EXCEPT
                          !.review_result = result.dict,
                          !.ai_approved =
                              Truthy(Get(result.dict, "approved", "true"))]
                     /\ r_pc' = "tests"
                ELSE /\ r_pc' = "cleanup"
                     /\ r_local' = [r_local EXCEPT
                             !.logged = Append(@, UnexpectedError)]
    /\ UNCHANGED <<r_prs, r_llm, r_hist_on, r_i, r_stats, r_history>>

\* the pytest subprocess, then the decision logic
run_tests ==
    /\ r_pc = "tests"
    /\ \E out \in PytestOutcomes :
         LET passed == (out.returncode = 0)
         IN  /\ r_local' = [r_local EXCEPT
                   !.tests_passed = passed,
                   !.returncode = out.returncode,
                   !.analysis = IF passed THEN NoAnalysis
                                ELSE analyze_failure(out, r_i)]
             /\ r_pc' = Decision(r_local.compliance_ok, r_local.ai_approved,
                                 passed, r_prs[r_i].draft, r_hist_on)
    /\ r_trace' = Append(r_trace, "pytest")
    /\ UNCHANGED <<r_prs, r_llm, r_hist_on, r_i, r_stats, r_history>>

\* mutant: a pr.merge that raised is tried a second time
merge_pr_retries ==
    /\ r_pc = "merge"
    /\ \E ok \in BOOLEAN :
         /\ r_local' = [r_local EXCEPT
                !.merged = ok,
                !.logged = IF ok THEN @ ELSE Append(@, UnexpectedError)]
         /\ r_pc' = IF ~ok /\ r_stats[r_i].merges = 0
                    THEN "merge" ELSE "cleanup"
    /\ r_stats' = [r_stats EXCEPT ![r_i].merges = @ + 1]
    /\ r_trace' = Append(r_trace, "merge")
    /\ UNCHANGED <<r_prs, r_llm, r_hist_on, r_i, r_history>>

\* pr.merge(merge_method='squash'); an exception is caught and logged
merge_pr ==
    /\ r_pc = "merge"
    /\ \E ok \in BOOLEAN :
         r_local' = [r_local EXCEPT
             !.merged = ok,
             !.logged = IF ok THEN @ ELSE Append(@, UnexpectedError)]
    /\ r_stats' = [r_stats EXCEPT ![r_i].merges = @ + 1]
    /\ r_trace' = Append(r_trace, "merge")
    /\ r_pc' = "cleanup"
    /\ UNCHANGED <<r_prs, r_llm, r_hist_on, r_i, r_history>>

\* mutant: the log file is opened with 'w' instead of 'a'
write_history_truncates ==
    /\ r_pc = "history"
    /\ \E ok \in BOOLEAN :
         IF ok
         THEN /\ r_history' = <<r_local.analysis>>
              /\ r_trace' = r_trace \o <<"write_history", "commit_history">>
              /\ r_pc' = "comment"
              /\ UNCHANGED r_local
         ELSE /\ r_trace' = Append(r_trace, "write_history")
              /\ r_pc' = "cleanup"
              /\ r_local' = [r_local EXCEPT
                      !.logged = Append(@, UnexpectedError)]
              /\ UNCHANGED r_history
    /\ UNCHANGED <<r_prs, r_llm, r_hist_on, r_i, r_stats>>

\* write_history(analysis) and _commit_review_history, whose git failures
\* are caught inside it; an OSError of makedirs or open is not caught there
\* and ends the PR's processing
write_history ==
    /\ r_pc = "history"
    /\ \E ok \in BOOLEAN :
         IF ok
         THEN /\ r_history' = Append(r_history, r_local.analysis)
              /\ r_trace' = r_trace \o <<"write_history", "commit_history">>
              /\ r_pc' = "comment"
              /\ UNCHANGED r_local
         ELSE /\ r_trace' = Append(r_trace, "write_history")
              /\ r_pc' = "cleanup"
              /\ r_local' = [r_local EXCEPT
                      !.logged = Append(@, UnexpectedError)]
              /\ UNCHANGED r_history
    /\ UNCHANGED <<r_prs, r_llm, r_hist_on, r_i, r_stats>>

\* pr.create_issue_comment(full_comment); an exception is caught and logged
post_comment ==
    /\ r_pc = "comment"
    /\ \E ok \in BOOLEAN :
         r_local' = [r_local EXCEPT
             !.posted = IF ok THEN Append(@, FeedbackParts(r_local)) ELSE @,
             !.logged = IF ok THEN @ ELSE Append(@, UnexpectedError)]
    /\ r_stats' = [r_stats EXCEPT ![r_i].comment_calls = @ + 1]
    /\ r_trace' = Append(r_trace, "comment")
    /\ r_pc' = "cleanup"
    /\ UNCHANGED <<r_prs, r_llm, r_hist_on, r_i, r_history>>

\* finally: git checkout main (check=True), git branch -D pr-N; then the
\* loop goes to the next PR
cleanup_pr ==
    /\ r_pc = "cleanup"
    /\ r_stats' = [r_stats EXCEPT ![r_i].cleanups = @ + 1]
    /\ r_trace' = <<>>
    /\ r_local' = NoLocals
    /\ r_i' = r_i + 1
    /\ r_pc' = IF r_i + 1 > Len(r_prs) THEN "done" ELSE "fetch"
    /\ UNCHANGED <<r_prs, r_llm, r_hist_on, r_history>>

ReviewNext ==
    \/ process_start
    \/ fetch_pr
    \/ checkout_pr
    \/ ai_review
    \/ run_tests
    \/ merge_pr
    \/ write_history
    \/ post_comment
    \/ cleanup_pr

(***************************************************************************)
(* check_copilot_compliance called repeatedly on one PullRequest object    *)
(* while the author edits the description on GitHub.  pr.body is the copy  *)
(* the object holds; pr.update() is what refreshes it from GitHub.         *)
(***************************************************************************)

\* bound on the number of compliance checks of one behaviour
MaxChecks == 3

ComplianceInit ==
    /\ k_remote \in Bodies
    /\ k_body = k_remote
    /\ k_updates = 0
    /\ k_checks = <<>>

ComplianceIdle ==
    /\ k_remote = None
    /\ k_body = None
    /\ k_updates = 0
    /\ k_checks = <<>>

\* the author rewrites the PR description on GitHub
edit_description ==
    /\ \E b \in Bodies \ {k_remote} : k_remote' = b
    /\ UNCHANGED <<k_body, k_updates, k_checks>>

\* one call of check_copilot_compliance(pr): it reads pr.body and makes no
\* call on pr
compliance_check ==
    /\ Len(k_checks) < MaxChecks
    /\ k_checks' = Append(k_checks,
            [found  |-> check_copilot_compliance([body |-> k_body,
                                                  draft |-> FALSE]),
             remote |-> k_remote])
    /\ UNCHANGED <<k_remote, k_body, k_updates>>

ComplianceNext ==
    \/ edit_description
    \/ compliance_check

(***************************************************************************)
(* The product pipeline: product/main.py, run_pipeline.  Every stage is a  *)
(* blocking call; an exception of a stage is not caught by run_pipeline.   *)
(***************************************************************************)

PipelineTopics == { <<"A", "I">>, <<"n", "o", "n", "e">> }

MockBook ==
    [title |-> <<"T">>, authors |-> <<"A">>, description |-> <<"d">>]

\* what curator_app.invoke gives: an exception, or the final graph state
\* (a dict without selected_book, with selected_book None, or with a book)
CuratorResults ==
    { "raise", "{}", "{selected_book: None}", "{selected_book: book}" }

\* curator_result.get("selected_book")
GetSelectedBook(result) ==
    IF result = "{selected_book: book}" THEN MockBook ELSE None

NoPipelineLocals ==
    [selected_book |-> None, video_id |-> None, youtube_text |-> <<>>,
     hn_comments |-> <<>>, internal_knowledge |-> FALSE,
     draft_analysis |-> <<>>, script |-> <<>>]

PipelineInit ==
    /\ q_topic \in PipelineTopics
    /\ q_pc = "curator"
    /\ q_local = NoPipelineLocals
    /\ q_calls = <<>>
    /\ q_outcome = "running"

PipelineIdle ==
    /\ q_topic = <<>>
    /\ q_pc = "done"
    /\ q_local = NoPipelineLocals
    /\ q_calls = <<>>
    /\ q_outcome = "idle"

\* Phase 1: curator_app.invoke, curator_result.get("selected_book") and the
\* check 'if not selected_book: return None'
curator_phase ==
    /\ q_pc = "curator"
    /\ q_calls' = Append(q_calls, "curator")
    /\ \E result \in CuratorResults :
         IF result = "raise"
         THEN /\ q_pc' = "done" /\ q_outcome' = "raised"
              /\ UNCHANGED q_local
         ELSE LET selected_book == GetSelectedBook(result)
              IN  IF result # "{selected_book: book}"
                  THEN /\ q_pc' = "done" /\ q_outcome' = "returned None"
                       /\ UNCHANGED q_local
                  ELSE /\ q_pc' = "search_author_interview"
                       /\ q_local' = [q_local EXCEPT
                               !.selected_book = selected_book]
                       /\ UNCHANGED q_outcome
    /\ UNCHANGED q_topic

\* Phase 2: search_author_interview(title, authors); a YouTube API error is
\* not caught
search_interview ==
    /\ q_pc = "search_author_interview"
    /\ q_calls' = Append(q_calls, "search_author_interview")
    /\ \E video_id \in {"raise", "none", "vid"} :
         IF video_id = "raise"
         THEN /\ q_pc' = "done" /\ q_outcome' = "raised"
              /\ UNCHANGED q_local
         ELSE /\ q_pc' = IF video_id = "none" THEN "get_hn_comments"
                         ELSE "get_transcript_text"
              /\ q_local' = [q_local EXCEPT
                      !.video_id = IF video_id = "none" THEN None
                                   ELSE <<video_id>>]
              /\ UNCHANGED q_outcome
    /\ UNCHANGED q_topic

\* get_transcript_text(video_id) if video_id else ""
fetch_transcript ==
    /\ q_pc = "get_transcript_text"
    /\ q_calls' = Append(q_calls, "get_transcript_text")
    /\ \E text \in { <<>>, <<"t">> } :
         q_local' = [q_local EXCEPT !.youtube_text = text]
    /\ q_pc' = "get_hn_comments"
    /\ UNCHANGED <<q_topic, q_outcome>>

\* get_hn_comments(title), then raw_text and the internal-knowledge note
fetch_comments ==
    /\ q_pc = "get_hn_comments"
    /\ q_calls' = Append(q_calls, "get_hn_comments")
    /\ \E text \in { <<>>, <<"c">> } :
         q_local' = [q_local EXCEPT
             !.hn_comments = text,
             !.internal_knowledge = (q_local.youtube_text = <<>>
                                     /\ text = <<>>)]
    /\ q_pc' = "analyst"
    /\ UNCHANGED <<q_topic, q_outcome>>

\* Phase 3: analyst_app.invoke
analyst_phase ==
    /\ q_pc = "analyst"
    /\ q_calls' = Append(q_calls, "analyst")
    /\ \E ok \in BOOLEAN :
         IF ok
         THEN /\ q_local' = [q_local EXCEPT !.draft_analysis = <<"D">>]
              /\ q_pc' = "generate_podcast_script"
              /\ UNCHANGED q_outcome
         ELSE /\ q_pc' = "done" /\ q_outcome' = "raised"
              /\ UNCHANGED q_local
    /\ UNCHANGED q_topic

\* Phase 4: generate_podcast_script(draft_analysis); it gives [] on failure
broadcaster_script ==
    /\ q_pc = "generate_podcast_script"
    /\ q_calls' = Append(q_calls, "generate_podcast_script")
    /\ \E script \in { <<>>, <<[speaker |-> "Alex", text |-> "Hello"]>> } :
         q_local' = [q_local EXCEPT !.script = script]
    /\ q_pc' = "synthesize_audio"
    /\ UNCHANGED <<q_topic, q_outcome>>

\* synthesize_audio(script), whatever the script is, then the
\* PipelineOutput is returned
broadcaster_audio ==
    /\ q_pc = "synthesize_audio"
    /\ q_calls' = Append(q_calls, "synthesize_audio")
    /\ \E ok \in BOOLEAN :
         q_outcome' = IF ok THEN "returned output" ELSE "raised"
    /\ q_pc' = "done"
    /\ UNCHANGED <<q_topic, q_local>>

PipelineNext ==
    \/ curator_phase
    \/ search_interview
    \/ fetch_transcript
    \/ fetch_comments
    \/ analyst_phase
    \/ broadcaster_script
    \/ broadcaster_audio

(***************************************************************************)
(* Candidate scoring: validation_node of curator.py (Hacker News signal    *)
(* and sentiment) and of src/curator.py (reliability verification).        *)
(* Scores are kept as integers: a rating or a reliability or sentiment     *)
(* score in tenths, a final_score of curator.py in units of 1/200000, a    *)
(* final_score of src/curator.py in units of 1/100.                        *)
(***************************************************************************)

\* bound on the length of raw_candidates
MaxCandidates == 6

ScorerImpls == {"hacker_news", "reliability"}

TitleAI == <<"A", "I", " ", "b", "o", "o", "k">>
TitleSoup == <<"S", "o", "u", "p">>

ScorerTopics == { <<"A", "I">>, <<"G", "o">> }

\* the book dicts the model enumerates as raw_candidates; rating is the
\* catalog rating as the JSON literal Google Books gave
CandidateKinds ==
    { [title |-> TitleAI, description |-> <<"t", "e", "x", "t">>,
       rating |-> "4.5", ratingsCount |-> 10],
      [title |-> TitleAI, description |-> <<"t", "e", "x", "t">>,
       rating |-> "4.0", ratingsCount |-> 10],
      [title |-> TitleSoup, description |-> <<"o", "n", " ", "A", "I">>,
       rating |-> "2.0", ratingsCount |-> 3] }

CandidateLists == UNION { [1..n -> CandidateKinds] : n \in 0..MaxCandidates }

\* what the Hacker News search gives (the same for every title of a run):
\* an exception, no hits, or hits with their summed points and comments
HNOutcomes ==
    { [kind |-> "raise"], [kind |-> "hits", points |-> 0, comments |-> 0],
      [kind |-> "hits", points |-> 100, comments |-> 7],
      [kind |-> "hits", points |-> 600, comments |-> 90] }

\* JSON numbers in the model's answers, in tenths
JsonNumber10 ==
    ("-1.0" :> -10) @@ ("0.0" :> 0) @@ ("0.5" :> 5) @@ ("0.8" :> 8)
    @@ ("2.0" :> 20) @@ ("4.0" :> 40) @@ ("4.5" :> 45)
    @@ ("5.0" :> 50) @@ ("6.0" :> 60) @@ ("8.5" :> 85)

\* what get_hn_comments and the sentiment model give: no comments, or
\* comments and the model's answer
SentimentOutcomes ==
    { [comments |-> FALSE, content |-> <<>>],
      [comments |-> TRUE, content |-> <<"{'score': -1.0, 'summary': 'bad'}">>],
      [comments |-> TRUE,
       content |-> <<"[fence]json", "\n",
                     "{'score': 0.8, 'summary': 'good'}", "\n", "[fence]">>],
      [comments |-> TRUE, content |-> <<"Sorry", " ", "no">>] }

\* what the reliability model answers (the same for every book of a run)
ReliabilityOutcomes ==
    { [kind |-> "raise"],
      [kind |-> "content",
       content |-> <<"{'score': 8.5, 'reason': 'known expert'}">>],
      [kind |-> "content",
       content |-> <<"Here", " ", "{'score': 6.0, 'reason': 'fine'}", "\n">>],
      [kind |-> "content", content |-> <<"I", " ", "cannot">>] }

\* bound on the length of raw_candidates in the runs where Hacker News and
\* the models answer differently for different titles
MaxRanked == 2

TitleGuide == <<"A", "I", " ", "g", "u", "i", "d", "e">>

\* unrated books that differ by their titles only
RankingKinds ==
    { [title |-> TitleAI, description |-> <<"t", "e", "x", "t">>,
       rating |-> "null", ratingsCount |-> 0],
      [title |-> TitleGuide, description |-> <<"t", "e", "x", "t">>,
       rating |-> "null", ratingsCount |-> 0] }

RankingLists == UNION { [1..n -> RankingKinds] : n \in 0..MaxRanked }

RankingHNOutcomes ==
    { [kind |-> "hits", points |-> 0, comments |-> 0],
      [kind |-> "hits", points |-> 100, comments |-> 7],
      [kind |-> "hits", points |-> 200, comments |-> 20] }

TitlesOf(raw) == { raw[i].title : i \in 1..Len(raw) }

\* get_hn_comments finds comments only under a story of more than 50 points
HNAnswers(hns) ==
    { e \in [hn : hns, sentiment : SentimentOutcomes] :
        e.sentiment.comments => (e.hn.kind = "hits" /\ e.hn.points > 50) }

\* what the outside world answers in one run, per title asked about; in the
\* runs over CandidateLists every title gets the same answer
ScorerEnvs(impl, raw) ==
    IF impl = "hacker_news"
    THEN IF raw \in RankingLists
         THEN { [hn |-> [t \in TitlesOf(raw) |-> f[t].hn],
                 sentiment |-> [t \in TitlesOf(raw) |-> f[t].sentiment]] :
                   f \in [TitlesOf(raw) -> HNAnswers(RankingHNOutcomes)] }
         ELSE { [hn |-> [t \in TitlesOf(raw) |-> e.hn],
                 sentiment |-> [t \in TitlesOf(raw) |-> e.sentiment]] :
                   e \in HNAnswers(HNOutcomes) }
    ELSE IF raw \in RankingLists
         THEN { [reliability |-> f] :
                   f \in [TitlesOf(raw) -> ReliabilityOutcomes] }
         ELSE { [reliability |-> [t \in TitlesOf(raw) |-> o]] :
                   o \in ReliabilityOutcomes }

\* book.get("rating", 0) or 0
g_rating(book) ==
    IF Get(book, "rating", "0") \in {"null", "0"} THEN 0
    ELSE JsonNumber10[Get(book, "rating", "0")]

\* curator.py get_hn_sentiment: the dict returned
get_hn_sentiment(outcome) ==
    IF outcome.kind = "raise" THEN [score |-> 0]
    ELSE IF outcome.points = 0
         THEN [score |-> 0, comments_count |-> 0, top_comment |-> <<>>]
         ELSE [score |-> outcome.points, comments_count |-> outcome.comments,
               top_discussion_id |-> "1"]

\* set(s.lower().split())
Words(s) == { w \in { SplitOn(Lower(s), " ")[i] :
                        i \in 1..Len(SplitOn(Lower(s), " ")) } : w # <<>> }

\* curator.py validation_node: the relevance penalty, in tenths
relevance_score(topic, book) ==
    IF Words(topic) \cap Words(book.title) # {} THEN 12
    ELSE IF Words(topic) \cap Words(Get(book, "description", <<>>)) # {}
         THEN 8
         ELSE 1

Min(a, b) == IF a < b THEN a ELSE b

\* curator.py validation_node: final_score before the sentiment adjustment
\* ((min(hn_score, 500) / 100 * 0.7 + g_rating * 0.3) * relevance_score)
legacy_final_score(hn_score, rating10, relevance10) ==
    (7 * Min(hn_score, 500) + 30 * rating10) * relevance10 * 20

RECURSIVE SortByFinalScore(_)
\* list.sort(key=lambda x: x["final_score"], reverse=True): descending and
\* stable, equal scores keep the order they had
SortByFinalScore(s) ==
    IF s = <<>> THEN <<>>
    ELSE LET front == SortByFinalScore(SubSeq(s, 1, Len(s) - 1))
             x == s[Len(s)]
             before == { p \in 1..Len(front) :
                           front[p].final_score < x.final_score }
             k == IF before = {} THEN Len(front) + 1
                  ELSE CHOOSE p \in before : \A q \in before : p <= q
         IN  SubSeq(front, 1, k - 1) \o <<x>> \o SubSeq(front, k, Len(front))

\* content[n:-3] once the opening fence is taken off: the last three
\* characters go, whether they are a closing fence or not
DropLast3(tokens) ==
    IF tokens = <<>> THEN <<>>
    ELSE IF tokens[Len(tokens)] = "[fence]"
         THEN SubSeq(tokens, 1, Len(tokens) - 1)
         ELSE SubSeq(tokens, 1, Len(tokens) - 1) \o <<"[cut]">>

SentimentNoComments ==
    [is_dict |-> TRUE,
     dict |-> [score |-> "0.0", summary |-> "No specific comments analyzed."]]

SentimentFailed ==
    [is_dict |-> TRUE, dict |-> [score |-> "0.0", summary |-> "Analysis failed."]]

\* curator.py analyze_sentiment, for a non-empty comments_text: the value
\* returned for the model's answer (raised is TRUE when llm.invoke raises)
analyze_sentiment(raised, content) ==
    LET c0 == Strip(content)
        c1 == IF c0 # <<>> /\ c0[1] \in {"[fence]json", "[fence]"}
              THEN DropLast3(Tail(c0)) ELSE c0
    IN  IF raised \/ ~JsonLoads(c1).ok THEN SentimentFailed
        ELSE JsonLoads(c1).value

\* the dicts verify_source_reliability falls back to
ReliabilityParseFailed ==
    [score |-> "5.0", reason |-> "JSON parsing failed, using default score."]

ReliabilityFailed ==
    [score |-> "5.0", reason |-> "Verification failed, using default score."]

\* re.search(r'\{.*\}', content, re.DOTALL): the text from the first opening
\* brace to the last closing brace, the whole content when there is none
RegexObject(tokens) ==
    LET idx == { i \in 1..Len(tokens) : tokens[i] \in DOMAIN BraceSpan }
    IN  IF idx = {} THEN tokens
        ELSE IF Cardinality(idx) = 1
             THEN <<BraceSpan[tokens[CHOOSE i \in idx : TRUE]]>>
             ELSE <<"[cut]">>

\* src/curator.py verify_source_reliability: the dict returned
verify_source_reliability(outcome) ==
    IF outcome.kind = "raise" THEN ReliabilityFailed
    ELSE LET parsed == JsonLoads(RegexObject(Strip(outcome.content)))
         IN  IF ~parsed.ok THEN ReliabilityParseFailed
             ELSE IF ~parsed.value.is_dict THEN ReliabilityFailed
             ELSE [score  |-> Get(parsed.value.dict, "score", "5.0"),
                   reason |-> Get(parsed.value.dict, "reason",
                                  "'No reason provided.'")]

\* src/curator.py validation_node: final_score
\* (r_score * 0.7 + g_rating * 2 * 0.3)
reliability_final_score(r_score10, rating10) == 7 * r_score10 + 6 * rating10

\* src/curator.py validation_node: the book_data of one candidate
reliability_book_data(book, env) ==
    LET reliability == verify_source_reliability(env.reliability[book.title])
    IN  Merge(book,
              [reliability_score  |-> JsonNumber10[reliability.score],
               reliability_reason |-> reliability.reason,
               final_score |->
                   reliability_final_score(JsonNumber10[reliability.score],
                                           g_rating(book))])

\* src/curator.py validation_node: vetted_books
reliability_vetted(raw, env) ==
    LET all == [i \in 1..Len(raw) |-> reliability_book_data(raw[i], env)]
    IN  SortByFinalScore(SelectSeq(all,
                            LAMBDA b : b.reliability_score >= 60))

\* curator.py validation_node: the candidates that pass the rating filter
legacy_kept(raw) ==
    SelectSeq(raw, LAMBDA b : ~(g_rating(b) > 0 /\ g_rating(b) < 30))

\* curator.py validation_node: the book_data of one candidate
legacy_book_data(book, topic, env) ==
    LET hn_data == get_hn_sentiment(env.hn[book.title])
    IN  Merge(book,
              [hn_score |-> hn_data.score,
               final_score |->
                   legacy_final_score(hn_data.score, g_rating(book),
                                      relevance_score(topic, book)),
               hn_comments_count |-> hn_data.comments_count])

\* curator.py validation_node: sentiment_data of a top candidate
legacy_sentiment_data(env, book) ==
    IF ~env.sentiment[book.title].comments THEN SentimentNoComments
    ELSE analyze_sentiment(FALSE, env.sentiment[book.title].content)

\* curator.py validation_node: the deep dive on one of the top candidates
\* (final_score * (1 + sentiment_score * 0.5))
legacy_adjust(book, sentiment_data) ==
    Merge(book,
          [sentiment_score   |-> JsonNumber10[sentiment_data.dict.score],
           sentiment_summary |-> sentiment_data.dict.summary,
           final_score |->
               (book.final_score
                  * (20 + JsonNumber10[sentiment_data.dict.score])) \div 20])

\* curator.py validation_node: the deep dive, on vetted[:5]
legacy_deep_dive(sorted, env) ==
    [i \in 1..Len(sorted) |->
        IF i <= 5
        THEN legacy_adjust(sorted[i], legacy_sentiment_data(env, sorted[i]))
        ELSE sorted[i]]

\* curator.py validation_node: vetted after the first loop and the first sort
legacy_first_sort(raw, topic, env) ==
    LET kept == legacy_kept(raw)
    IN  SortByFinalScore([i \in 1..Len(kept) |->
                             legacy_book_data(kept[i], topic, env)])

\* the first loop raises KeyError on the dict get_hn_sentiment gives after
\* an exception
legacy_lookup_raises(raw, env) ==
    \E i \in 1..Len(raw) :
        /\ ~(g_rating(raw[i]) > 0 /\ g_rating(raw[i]) < 30)
        /\ env.hn[raw[i].title].kind = "raise"

\* curator.py validation_node raises: in the first loop, or KeyError or
\* TypeError on a sentiment answer without a numeric score
legacy_raises(raw, topic, env) ==
    \/ legacy_lookup_raises(raw, env)
    \/ /\ ~legacy_lookup_raises(raw, env)
       /\ LET sorted == legacy_first_sort(raw, topic, env)
          IN  \E i \in 1..Min(5, Len(sorted)) :
                LET data == legacy_sentiment_data(env, sorted[i])
                IN  \/ ~data.is_dict
                    \/ "score" \notin DOMAIN data.dict
                    \/ "summary" \notin DOMAIN data.dict
                    \/ data.dict.score \notin DOMAIN JsonNumber10

\* curator.py validation_node: vetted_books
legacy_vetted(raw, topic, env) ==
    SortByFinalScore(legacy_deep_dive(legacy_first_sort(raw, topic, env), env))

Op(name, i) == [op |-> name, i |-> i]

RECURSIVE ConcatOps(_, _)
ConcatOps(f(_), n) == IF n = 0 THEN <<>> ELSE ConcatOps(f, n - 1) \o f(n)

\* curator.py validation_node, first loop: what is done with raw[i]
legacy_candidate_ops(raw, env, i) ==
    IF g_rating(raw[i]) > 0 /\ g_rating(raw[i]) < 30
    THEN <<Op("drop", i)>>
    ELSE IF env.hn[raw[i].title].kind = "raise"
         THEN <<Op("lookup", i), Op("score", i)>>
         ELSE <<Op("lookup", i), Op("score", i), Op("keep", i)>>

\* curator.py validation_node, first loop: it ends with the candidate whose
\* hn_data has no comments_count
legacy_ops(raw, env) ==
    LET bad == { i \in 1..Len(raw) :
                   /\ ~(g_rating(raw[i]) > 0 /\ g_rating(raw[i]) < 30)
                   /\ env.hn[raw[i].title].kind = "raise" }
        last == IF bad = {} THEN Len(raw)
                ELSE CHOOSE i \in bad : \A j \in bad : i <= j
        ops(i) == legacy_candidate_ops(raw, env, i)
    IN  ConcatOps(ops, last)

\* src/curator.py validation_node, the loop: what is done with raw[i]
reliability_candidate_ops(raw, env, i) ==
    <<Op("lookup", i), Op("score", i),
      IF reliability_book_data(raw[i], env).reliability_score >= 60
      THEN Op("keep", i) ELSE Op("drop", i)>>

reliability_ops(raw, env) ==
    LET ops(i) == reliability_candidate_ops(raw, env, i)
    IN  ConcatOps(ops, Len(raw))

ScorerInit ==
    /\ v_impl \in ScorerImpls
    /\ v_topic \in ScorerTopics
    /\ v_raw \in CandidateLists \cup RankingLists
    /\ v_env \in ScorerEnvs(v_impl, v_raw)
    /\ v_pc = "validation_node"
    /\ v_vetted = <<>>
    /\ v_selected = None
    /\ v_ops = <<>>

ScorerIdle ==
    /\ v_impl = "reliability"
    /\ v_topic = <<>>
    /\ v_raw = <<>>
    /\ v_env = <<>>
    /\ v_pc = "idle"
    /\ v_vetted = <<>>
    /\ v_selected = None
    /\ v_ops = <<>>

\* curator.py validation_node
legacy_validation_node ==
    /\ v_pc = "validation_node"
    /\ v_impl = "hacker_news"
    /\ v_ops' = legacy_ops(v_raw, v_env)
    /\ IF legacy_raises(v_raw, v_topic, v_env)
       THEN v_pc' = "raised" /\ UNCHANGED <<v_vetted, v_selected>>
       ELSE /\ v_vetted' = legacy_vetted(v_raw, v_topic, v_env)
            /\ v_selected' = IF v_vetted' # <<>> THEN v_vetted'[1] ELSE None
            /\ v_pc' = "returned"
    /\ UNCHANGED <<v_impl, v_topic, v_raw, v_env>>

\* mutant: best_book is taken from the end of vetted
validation_node_picks_last ==
    /\ v_pc = "validation_node"
    /\ v_impl = "reliability"
    /\ v_ops' = reliability_ops(v_raw, v_env)
    /\ v_vetted' = reliability_vetted(v_raw, v_env)
    /\ v_selected' = IF v_vetted' # <<>> THEN v_vetted'[Len(v_vetted')]
                     ELSE None
    /\ v_pc' = "returned"
    /\ UNCHANGED <<v_impl, v_topic, v_raw, v_env>>

\* src/curator.py validation_node
validation_node ==
    /\ v_pc = "validation_node"
    /\ v_impl = "reliability"
    /\ v_ops' = reliability_ops(v_raw, v_env)
    /\ v_vetted' = reliability_vetted(v_raw, v_env)
    /\ v_selected' = IF v_vetted' # <<>> THEN v_vetted'[1] ELSE None
    /\ v_pc' = "returned"
    /\ UNCHANGED <<v_impl, v_topic, v_raw, v_env>>

ScorerNext ==
    \/ legacy_validation_node
    \/ validation_node

(***************************************************************************)
(* The parsers of model output: review_code_llm, verify_source_reliability,*)
(* analyze_sentiment and analyst.py generate_script, each given one answer *)
(***************************************************************************)

Parsers == {"review_code_llm", "verify_source_reliability",
            "analyze_sentiment", "generate_script"}

\* what the model may have put into its answer
ParserDocs ==
    { <<"{'approved': false, 'comments': 'bug'}">>,
      <<"{'score': 0.8, 'summary': 'good'}">>,
      <<"[{'speaker': 'A', 'text': 'hi'}]">>,
      <<"[]">>,
      <<"Looks", " ", "fine">>,
      <<>> }

\* how the answer may be wrapped: bare, with white space, inside a code
\* fence (with or without the json tag, closed or not), inside prose
ParserContents ==
    UNION { { doc,
              <<"\n">> \o doc \o <<"\n">>,
              <<"[fence]json", "\n">> \o doc \o <<"\n", "[fence]">>,
              <<"[fence]", "\n">> \o doc \o <<"\n", "[fence]">>,
              <<"[fence]json", "\n">> \o doc,
              <<"Sure", " ">> \o doc \o <<" ", "Done">> } : doc \in ParserDocs }

\* s.removeprefix(p)
RemovePrefix(tokens, p) ==
    IF tokens # <<>> /\ tokens[1] = p THEN Tail(tokens) ELSE tokens

\* s.removesuffix(p)
RemoveSuffix(tokens, p) ==
    IF tokens # <<>> /\ tokens[Len(tokens)] = p
    THEN SubSeq(tokens, 1, Len(tokens) - 1) ELSE tokens

\* analyst.py generate_script, from response.text on: json.loads, and after
\* a JSONDecodeError json.loads of the text without its code fence
generate_script(text) ==
    LET cleaned == RemoveSuffix(RemovePrefix(Strip(text), "[fence]json"),
                                "[fence]")
    IN  IF JsonLoads(text).ok
        THEN [raised |-> FALSE, value |-> JsonLoads(text).value]
        ELSE IF JsonLoads(cleaned).ok
             THEN [raised |-> FALSE, value |-> JsonLoads(cleaned).value]
             ELSE [raised |-> TRUE, value |-> "JSONDecodeError"]

\* what a parser gives for an answer of the model
ParserResult(parser, content) ==
    CASE parser = "review_code_llm" ->
           [raised |-> FALSE,
            value |-> review_code_llm(TRUE, [kind |-> "content",
                                             content |-> content])]
      [] parser = "verify_source_reliability" ->
           [raised |-> FALSE,
            value |-> verify_source_reliability([kind |-> "content",
                                                 content |-> content])]
      [] parser = "analyze_sentiment" ->
           [raised |-> FALSE, value |-> analyze_sentiment(FALSE, content)]
      [] parser = "generate_script" -> generate_script(content)

ParserInit ==
    /\ p_parser \in Parsers
    /\ p_content \in ParserContents
    /\ p_pc = "call"
    /\ p_out = [raised |-> FALSE, value |-> None]

ParserIdle ==
    /\ p_parser = "generate_script"
    /\ p_content = <<>>
    /\ p_pc = "idle"
    /\ p_out = [raised |-> FALSE, value |-> None]

\* one call of the parser at hand
parse_output ==
    /\ p_pc = "call"
    /\ p_out' = ParserResult(p_parser, p_content)
    /\ p_pc' = "done"
    /\ UNCHANGED <<p_parser, p_content>>

ParserNext == parse_output

(***************************************************************************)
(* The comment-tree walk: product/researcher.py and content_fetcher.py,    *)
(* get_hn_comments with its nested function extract_comments.  The         *)
(* recursion is written out with its call stack: one frame per active call *)
(* of extract_comments, the innermost call last.                           *)
(***************************************************************************)

\* bound on the number of nodes of the discussion trees that are enumerated
MaxNodes == 5

\* comments_text[:30]
MaxComments == 30

\* the depth beyond which extract_comments returns at once
MaxDepth == 3

\* a discussion as the items API gives it: nodes 1..n with node 1 the story,
\* parent[i] the node that has i among its children (children stand in the
\* order of their numbers), text the nodes with a non-empty "text"
SmallTrees ==
    UNION { [n : {n}, parent : [2..n -> 1..n], text : SUBSET (1..n)] :
              n \in 1..MaxNodes }

\* every node but the story hangs below an earlier node
WellFormed(tree) == \A i \in 2..tree.n : tree.parent[i] < i

\* a story with 32 answers, and a thread of 55 comments that reaches down
\* to depth 5, with ten answers to each of its first five nodes; every node
\* has a text
WideTree == [n |-> 33, parent |-> [i \in 2..33 |-> 1], text |-> 1..33]

BushyTree ==
    [n |-> 56,
     parent |-> [i \in 2..56 |-> IF i <= 6 THEN i - 1 ELSE (i % 5) + 1],
     text |-> 1..56]

Trees == { t \in SmallTrees : WellFormed(t) } \cup {WideTree, BushyTree}

\* node.get("children", []): the nodes that hang below node, in the order
\* of their numbers
Children(tree, node) ==
    LET below == { i \in 2..tree.n : tree.parent[i] = node }
    IN  [k \in 1..Cardinality(below) |->
            CHOOSE i \in below :
                Cardinality({ j \in below : j < i }) = k - 1]

\* node["text"]: some HTML around the words of the comment
NodeText(i) == <<"<p>", ToString(i), "<i>", "!", "</i>">>

HtmlTags == {"<p>", "</p>", "<i>", "</i>"}

\* re.sub('<[^<]+?>', '', text)
CleanTags(text) == SelectSeq(text, LAMBDA t : t \notin HtmlTags)

EngineerComment(i) == <<"[Engineer Comment]: ">> \o CleanTags(NodeText(i))

\* what the two requests of get_hn_comments can give
WalkOutcomes == {"search_raises", "no_hits", "item_raises", "item"}

OneNodeTree == [n |-> 1, parent |-> <<>>, text |-> {}]

WalkInit ==
    /\ w_outcome \in WalkOutcomes
    /\ w_tree \in IF w_outcome = "item" THEN Trees ELSE {OneNodeTree}
    /\ w_pc = "search"
    /\ w_stack = <<>>
    /\ w_comments_text = <<>>
    /\ w_out = None

WalkIdle ==
    /\ w_outcome = "no_hits"
    /\ w_tree = OneNodeTree
    /\ w_pc = "idle"
    /\ w_stack = <<>>
    /\ w_comments_text = <<>>
    /\ w_out = None

\* the search request: an exception or an empty "hits" gives ""
search_story ==
    /\ w_pc = "search"
    /\ IF w_outcome \in {"search_raises", "no_hits"}
       THEN w_pc' = "returned" /\ w_out' = <<>>
       ELSE w_pc' = "fetch_item" /\ UNCHANGED w_out
    /\ UNCHANGED <<w_outcome, w_tree, w_stack, w_comments_text>>

\* the items request, then the call extract_comments(item_resp)
fetch_item ==
    /\ w_pc = "fetch_item"
    /\ IF w_outcome = "item_raises"
       THEN w_pc' = "returned" /\ w_out' = <<>> /\ UNCHANGED w_stack
       ELSE /\ w_pc' = "extract"
            /\ w_stack' = <<[node |-> 1, depth |-> 0, child |-> 0]>>
            /\ UNCHANGED w_out
    /\ UNCHANGED <<w_outcome, w_tree, w_comments_text>>

Top == w_stack[Len(w_stack)]

Pop == SubSeq(w_stack, 1, Len(w_stack) - 1)

\* mutant: the depth test lets one more level through
extract_comments_one_deeper ==
    /\ w_pc = "extract"
    /\ Top.child = 0
    /\ IF Top.depth > MaxDepth + 1
       THEN /\ w_stack' = Pop
            /\ w_pc' = IF Pop = <<>> THEN "join" ELSE "extract"
            /\ UNCHANGED w_comments_text
       ELSE /\ w_comments_text' =
                 IF Top.node \in w_tree.text
                 THEN Append(w_comments_text, EngineerComment(Top.node))
                 ELSE w_comments_text
            /\ w_stack' = [w_stack EXCEPT ![Len(w_stack)].child = 1]
            /\ UNCHANGED w_pc
    /\ UNCHANGED <<w_outcome, w_tree, w_out>>

\* extract_comments(node, depth), up to its for statement: the depth test
\* and the text of the node
extract_comments ==
    /\ w_pc = "extract"
    /\ Top.child = 0
    /\ IF Top.depth > MaxDepth
       THEN /\ w_stack' = Pop
            /\ w_pc' = IF Pop = <<>> THEN "join" ELSE "extract"
            /\ UNCHANGED w_comments_text
       ELSE /\ w_comments_text' =
                 IF Top.node \in w_tree.text
                 THEN Append(w_comments_text, EngineerComment(Top.node))
                 ELSE w_comments_text
            /\ w_stack' = [w_stack EXCEPT ![Len(w_stack)].child = 1]
            /\ UNCHANGED w_pc
    /\ UNCHANGED <<w_outcome, w_tree, w_out>>

\* extract_comments, one round of 'for child in node.get("children", [])':
\* the recursive call for the next child, or the return after the last one
visit_children ==
    /\ w_pc = "extract"
    /\ Top.child >= 1
    /\ LET children == Children(w_tree, Top.node)
       IN  IF Top.child <= Len(children)
           THEN /\ w_stack' =
                     Append([w_stack EXCEPT ![Len(w_stack)].child = @ + 1],
                            [node |-> children[Top.child],
                             depth |-> Top.depth + 1, child |-> 0])
                /\ UNCHANGED w_pc
           ELSE /\ w_stack' = Pop
                /\ w_pc' = IF Pop = <<>> THEN "join" ELSE "extract"
    /\ UNCHANGED <<w_outcome, w_tree, w_comments_text, w_out>>

\* "\n".join(comments_text[:30])
join_comments ==
    /\ w_pc = "join"
    /\ w_out' = Join(<<"\n">>,
                     SubSeq(w_comments_text, 1,
                            Min(MaxComments, Len(w_comments_text))))
    /\ w_pc' = "returned"
    /\ UNCHANGED <<w_outcome, w_tree, w_stack, w_comments_text>>

WalkNext ==
    \/ search_story
    \/ fetch_item
    \/ extract_comments
    \/ visit_children
    \/ join_comments

(***************************************************************************)
(* Specifications, one per component                                       *)
(***************************************************************************)

OthersIdle(component) ==
    /\ component = "analyst" \/ AnalystIdle
    /\ component = "curator" \/ CuratorIdle
    /\ component = "manager" \/ ManagerInit
    /\ component = "review" \/ ReviewIdle
    /\ component = "scorer" \/ ScorerIdle
    /\ component = "parsers" \/ ParserIdle
    /\ component = "threads" \/ ThreadsInit
    /\ component = "compliance" \/ ComplianceIdle
    /\ component = "pipeline" \/ PipelineIdle
    /\ component = "daemon" \/ DaemonIdle
    /\ component = "walk" \/ WalkIdle

InitAnalyst == AnalystInit /\ OthersIdle("analyst")
NextAnalyst ==
    AnalystNext /\ UNCHANGED <<curatorVars, managerVars, reviewVars,
                               scorerVars, parserVars, threadVars,
                               complianceVars, pipelineVars, daemonVars,
                               walkVars>>
SpecAnalyst == InitAnalyst /\ [][NextAnalyst]_vars

InitCurator == CuratorInit /\ OthersIdle("curator")
NextCurator ==
    CuratorNext /\ UNCHANGED <<analystVars, managerVars, reviewVars,
                               scorerVars, parserVars, threadVars,
                               complianceVars, pipelineVars, daemonVars,
                               walkVars>>
SpecCurator == InitCurator /\ [][NextCurator]_vars

InitManager == ManagerInit /\ OthersIdle("manager")
NextManager ==
    ManagerNext /\ UNCHANGED <<analystVars, curatorVars, reviewVars,
                               scorerVars, parserVars, threadVars,
                               complianceVars, pipelineVars, daemonVars,
                               walkVars>>
SpecManager == InitManager /\ [][NextManager]_vars

InitReview == ReviewInit /\ OthersIdle("review")
NextReview ==
    ReviewNext /\ UNCHANGED <<analystVars, curatorVars, managerVars,
                              scorerVars, parserVars, threadVars,
                              complianceVars, pipelineVars, daemonVars,
                              walkVars>>
SpecReview == InitReview /\ [][NextReview]_vars

InitScorer == ScorerInit /\ OthersIdle("scorer")
NextScorer ==
    ScorerNext /\ UNCHANGED <<analystVars, curatorVars, managerVars,
                              reviewVars, parserVars, threadVars,
                              complianceVars, pipelineVars, daemonVars,
                              walkVars>>
SpecScorer == InitScorer /\ [][NextScorer]_vars

InitParsers == ParserInit /\ OthersIdle("parsers")
NextParsers ==
    ParserNext /\ UNCHANGED <<analystVars, curatorVars, managerVars,
                              reviewVars, scorerVars, threadVars,
                              complianceVars, pipelineVars, daemonVars,
                              walkVars>>
SpecParsers == InitParsers /\ [][NextParsers]_vars

InitThreads == ManagerInit /\ OthersIdle("manager")
NextThreads ==
    ThreadsNext /\ UNCHANGED <<analystVars, curatorVars, reviewVars,
                               scorerVars, parserVars, complianceVars,
                               pipelineVars, daemonVars, walkVars>>
SpecThreads == InitThreads /\ [][NextThreads]_vars

InitCompliance == ComplianceInit /\ OthersIdle("compliance")
NextCompliance ==
    ComplianceNext /\ UNCHANGED <<analystVars, curatorVars, managerVars,
                                  reviewVars, scorerVars, parserVars,
                                  threadVars, pipelineVars, daemonVars,
                                  walkVars>>
SpecCompliance == InitCompliance /\ [][NextCompliance]_vars

InitPipeline == PipelineInit /\ OthersIdle("pipeline")
NextPipeline ==
    PipelineNext /\ UNCHANGED <<analystVars, curatorVars, managerVars,
                                reviewVars, scorerVars, parserVars,
                                threadVars, complianceVars, daemonVars,
                                walkVars>>
SpecPipeline == InitPipeline /\ [][NextPipeline]_vars

InitDaemon == DaemonInit /\ OthersIdle("daemon")
NextDaemon ==
    DaemonNext /\ UNCHANGED <<analystVars, curatorVars, managerVars,
                              reviewVars, scorerVars, parserVars, threadVars,
                              complianceVars, pipelineVars, walkVars>>
SpecDaemon == InitDaemon /\ [][NextDaemon]_vars

InitWalk == WalkInit /\ OthersIdle("walk")
NextWalk ==
    WalkNext /\ UNCHANGED <<analystVars, curatorVars, managerVars,
                            reviewVars, scorerVars, parserVars, threadVars,
                            complianceVars, pipelineVars, daemonVars>>
SpecWalk == InitWalk /\ [][NextWalk]_vars

SpecAnalystFair == SpecAnalyst /\ WF_vars(NextAnalyst)

SpecWalkFair == SpecWalk /\ WF_vars(NextWalk)

(***************************************************************************)
(* Properties of the reflexion loop                                        *)
(***************************************************************************)

CountSteps(node) == Cardinality({ i \in 1..Len(steps) : steps[i] = node })

CriticCalls == SelectSeq(llm_calls, LAMBDA c : c.node = "critique")

NeverApproved ==
    \A i \in 1..Len(CriticCalls) : ~Contains(CriticCalls[i].response, LGTM)

FirstApproved ==
    /\ Len(CriticCalls) >= 1
    /\ Contains(CriticCalls[1].response, LGTM)

\* C1: the content given to the critic contains original_text, in every
\* critique call of the run.
C1_CritiqueAnchored ==
    \A i \in 1..Len(CriticCalls) :
        Contains(CriticCalls[i].human, state["original_text"])

\* C3: a run whose critic never answers with the sentinel ends after exactly
\* 3 critique calls and 2 revise calls, with revision_count = 3 and the draft
\* of the second revision as its result.
C3_Exhaustion ==
    (pc = END /\ NeverApproved) =>
        /\ CountSteps("critique") = 3
        /\ Len(CriticCalls) = 3
        /\ CountSteps("revise") = 2
        /\ state["revision_count"] = 3
        /\ Len(produced) = 3
        /\ state["draft_analysis"] = produced[3]

C3_Witness ==
    /\ pc = END
    /\ NeverApproved
    /\ steps = <<"router", "draft", "critique", "revise", "critique",
                 "revise", "critique">>

\* C4: when the critic's first answer contains the sentinel the run is over
\* after one draft step and one critique call, without a revise call, with
\* revision_count = 1 and the initial draft as its result.
C4_Approval ==
    FirstApproved =>
        /\ pc = END
        /\ CountSteps("draft") = 1
        /\ CountSteps("critique") = 1
        /\ Len(CriticCalls) = 1
        /\ CountSteps("revise") = 0
        /\ state["revision_count"] = 1
        /\ Contains(state["critique_feedback"], LGTM)
        /\ produced = <<state["draft_analysis"]>>

C4_Witness ==
    /\ FirstApproved
    /\ pc = END
    /\ steps = <<"router", "draft", "critique">>

\* C5: every run ends, whatever the critic answers and whatever
\* revision_count the caller passed in; it makes at most MAX_RETRIES critique
\* calls and MAX_RETRIES - 1 revise calls, and after each critique it goes on
\* to revise only if the feedback lacks the sentinel and revision_count is
\* still below MAX_RETRIES.
C5_Terminates ==
    /\ <>(pc \in {END, "raised"})
    /\ [](/\ CountSteps("critique") <= MAX_RETRIES
          /\ CountSteps("revise") <= MAX_RETRIES - 1
          /\ (steps # <<>> /\ steps[Len(steps)] = "critique"
                /\ pc \in {END, "revise"}) =>
               (pc = END <=>
                  \/ Contains(state["critique_feedback"], LGTM)
                  \/ state["revision_count"] >= MAX_RETRIES))

C5_Witness ==
    /\ pc = END
    /\ CountSteps("critique") = MAX_RETRIES
    /\ ~Contains(state["critique_feedback"], LGTM)

RevisionCount == Get(state, "revision_count", -1)

Drafted == CountSteps("draft") >= 1

\* C18: the draft step sets revision_count to 1, a revise step adds one to
\* it, no other step changes it; from the draft step on it never decreases
\* and equals 1 + the number of revise steps made.
C18_RevisionCount ==
    /\ [](Drafted => RevisionCount = 1 + CountSteps("revise"))
    /\ [][steps' = Append(steps, "draft") => RevisionCount' = 1]_vars
    /\ [][steps' = Append(steps, "revise") =>
             RevisionCount' = RevisionCount + 1]_vars
    /\ [][(steps' = steps \/ steps' = Append(steps, "router")
             \/ steps' = Append(steps, "critique")) =>
             RevisionCount' = RevisionCount]_vars
    /\ [][Drafted => RevisionCount' >= RevisionCount]_vars

C18_Witness ==
    /\ pc = END
    /\ steps = <<"router", "draft", "critique", "revise", "critique">>
    /\ RevisionCount = 2
    /\ Contains(state["critique_feedback"], LGTM)

\* the number of revise calls among the first k model calls
RevisionsBefore(k) ==
    Cardinality({ j \in 1..(k - 1) : llm_calls[j].node = "revise" })

\* C19: the prompt of every revise call holds the draft as it stood, the
\* feedback of the critique just made and original_text; the answer becomes
\* draft_analysis and is what the next critique call is given.
C19_ReviseInputs ==
    \A k \in 1..Len(llm_calls) :
        llm_calls[k].node = "revise" =>
            /\ llm_calls[k - 1].node = "critique"
            /\ Contains(llm_calls[k].human, llm_calls[k - 1].response)
            /\ Contains(llm_calls[k].human, produced[RevisionsBefore(k) + 1])
            /\ Contains(llm_calls[k].human, state["original_text"])
            /\ produced[RevisionsBefore(k) + 2] = llm_calls[k].response
            /\ IF k = Len(llm_calls)
               THEN state["draft_analysis"] = llm_calls[k].response
               ELSE /\ llm_calls[k + 1].node = "critique"
                    /\ Contains(llm_calls[k + 1].human, llm_calls[k].response)

(***************************************************************************)
(* Properties of the fallback chain                                        *)
(***************************************************************************)

ChainDone == c_impl = "Curator.search" /\ c_pc \in {"returned", "raised"}

\* the primary provider raised or answered with an HTTP error status
PrimaryFailed(outcome) ==
    IF outcome.kind = "raise" THEN TRUE
    ELSE outcome.status >= 400 \/ ~outcome.json_ok

\* the books a Google Books answer holds
PrimaryItems(outcome) ==
    IF outcome.kind = "response" /\ "items" \in DOMAIN outcome.data
    THEN outcome.data["items"] ELSE <<>>

\* the results a Tavily answer holds
TavilyItems(outcome) ==
    IF outcome.kind = "response" /\ "results" \in DOMAIN outcome.data
    THEN outcome.data["results"] ELSE <<>>

\* C6: Curator.search asks Google Books first and Tavily second and nobody
\* else; when Google Books raises or answers with an HTTP error status,
\* Tavily is asked exactly once and its normalized list is the result; when
\* Google Books succeeds, Tavily is not asked.
C6_FallbackOrder ==
    c_impl = "Curator.search" =>
        /\ Len(c_calls) <= 2
        /\ \A i \in 1..Len(c_calls) :
              c_calls[i].provider = IF i = 1 THEN "google_books" ELSE "tavily"
        /\ c_pc \in {"returned", "raised"} =>
              IF PrimaryFailed(c_calls[1].outcome)
              THEN /\ Len(c_calls) = 2
                   /\ c_calls[2].outcome.kind = "response" =>
                        /\ c_pc = "returned"
                        /\ Len(c_result) = Len(TavilyItems(c_calls[2].outcome))
                        /\ \A i \in 1..Len(c_result) :
                             /\ DOMAIN c_result[i] =
                                  {"title", "authors", "description"}
                             /\ c_result[i].authors = << <<"N", "/", "A">> >>
                             /\ c_result[i].title =
                                  Get(TavilyItems(c_calls[2].outcome)[i],
                                      "title", None)
                             /\ c_result[i].description =
                                  Get(TavilyItems(c_calls[2].outcome)[i],
                                      "content", None)
              ELSE /\ Len(c_calls) = 1
                   /\ c_pc = "returned"
                   /\ Len(c_result) = Len(PrimaryItems(c_calls[1].outcome))

C6_Witness ==
    /\ ChainDone
    /\ c_pc = "returned"
    /\ Len(c_calls) = 2
    /\ c_calls[1].outcome.kind = "response"
    /\ c_calls[1].outcome.status = 429
    /\ Len(c_result) = 2

\* a provider call that raised or produced an empty list
ProviderFailed(call) ==
    IF call.provider = "google_books"
    THEN PrimaryFailed(call.outcome) \/ PrimaryItems(call.outcome) = <<>>
    ELSE call.outcome.kind = "raise" \/ TavilyItems(call.outcome) = <<>>

\* C7: when Google Books and Tavily both fail (raise or give an empty list)
\* the search ends with AllSourcesFailedError, never with another exception
\* and never with a result.
C7_AllSourcesFailedError ==
    (/\ ChainDone
     /\ Len(c_calls) = 2
     /\ \A i \in 1..2 : ProviderFailed(c_calls[i])) =>
        /\ c_pc = "raised"
        /\ c_error = "AllSourcesFailedError"

\* C8: when the primary provider returns an empty list without raising, the
\* next provider is asked instead of the empty list being returned.
C8_EmptyPrimaryFallsBack ==
    (/\ c_pc \in {"returned", "raised"}
     /\ Len(c_calls) >= 1
     /\ ~PrimaryFailed(c_calls[1].outcome)
     /\ PrimaryItems(c_calls[1].outcome) = <<>>) =>
        /\ Len(c_calls) >= 2
        /\ c_calls[2].provider # "google_books"

(***************************************************************************)
(* Properties of the circuit breaker                                       *)
(***************************************************************************)

\* trigger_recovery: the circuit-breaker check
BreakerTripped ==
    Get(optimization_attempts, target_component, 0) >= MAX_OPTIMIZATION_RETRIES

\* C9: the breaker is tripped exactly from the MAX_OPTIMIZATION_RETRIES-th
\* recorded attempt on; once tripped it stays tripped, the count no longer
\* changes, and every later 'quality' call hits the breaker.
C9_BreakerTrip ==
    /\ [](BreakerTripped <=> optimizer_runs >= MAX_OPTIMIZATION_RETRIES)
    /\ [](m_last.did = "tripped" => BreakerTripped)
    /\ [][BreakerTripped =>
            /\ BreakerTripped'
            /\ optimization_attempts' = optimization_attempts
            /\ (m_calls' # m_calls /\ m_last'.failure_type = "quality") =>
                   m_last'.did = "tripped"]_vars

C9_Witness ==
    /\ BreakerTripped
    /\ m_last.did = "optimizer"
    /\ optimizer_runs = MAX_OPTIMIZATION_RETRIES

\* C10: the optimizer is run at most MAX_OPTIMIZATION_RETRIES times over any
\* sequence of calls, and a call made once the breaker has tripped does not
\* run it.
C10_StopsRetrying ==
    /\ [](optimizer_runs <= MAX_OPTIMIZATION_RETRIES)
    /\ [][BreakerTripped => optimizer_runs' = optimizer_runs]_vars

C10_Witness ==
    /\ m_last.did = "tripped"
    /\ m_last.failure_type = "quality"
    /\ optimizer_runs = MAX_OPTIMIZATION_RETRIES
    /\ m_calls > MAX_OPTIMIZATION_RETRIES + 1

AttemptCount == Get(optimization_attempts, target_component, 0)

\* C20: optimization_attempts[target] never decreases, grows by exactly one
\* with every run of the optimizer and with nothing else, and so always
\* equals the number of optimizer runs made for the target.
C20_AdditiveCounter ==
    /\ [](AttemptCount = optimizer_runs)
    /\ [][AttemptCount' \in {AttemptCount, AttemptCount + 1}]_vars
    /\ [][AttemptCount' = AttemptCount + 1 <=>
             optimizer_runs' = optimizer_runs + 1]_vars
    /\ [][optimizer_runs' \in {optimizer_runs, optimizer_runs + 1}]_vars

C20_Witness ==
    /\ AttemptCount = 2
    /\ optimizer_runs = 2
    /\ m_last = [failure_type |-> "quality", did |-> "optimizer", exit |-> 0]
    /\ m_calls = 4

\* C21: with trigger_recovery("quality") calls of several threads interleaved,
\* no increment is lost (once every call has returned the counter equals the
\* number of optimizer runs) and the optimizer has run at most
\* MAX_OPTIMIZATION_RETRIES times.
C21_ConcurrentCounter ==
    /\ optimizer_runs <= MAX_OPTIMIZATION_RETRIES
    /\ (\A t \in Threads : t_pc[t] = "idle") => AttemptCount = optimizer_runs

(***************************************************************************)
(* Properties of the gate pipeline                                         *)
(***************************************************************************)

InTrace(op) == \E k \in 1..Len(r_trace) : r_trace[k] = op

\* C2: pr.merge is called at most once for each PR of the run, and only
\* after all three gates ran and passed for it: the description holds the
\* consultation log, the AI review approved, pytest returned 0.  A PR whose
\* pytest run returned non-zero is never merged.
C2_MergeOnlyIfAllGatesPass ==
    /\ \A i \in 1..Len(r_prs) :
          /\ r_stats[i].merges <= 1
          /\ i > r_i => r_stats[i].merges = 0
    /\ (r_pc = "merge" \/ InTrace("merge")) =>
          /\ InTrace("compliance") /\ InTrace("ai_review") /\ InTrace("pytest")
          /\ Contains(r_prs[r_i].body, CopilotLogHeader)
          /\ r_local.ai_approved
          /\ r_local.returncode = 0
    /\ (r_i \in 1..Len(r_prs) /\ r_local.returncode > 0) =>
          /\ r_pc # "merge"
          /\ r_stats[r_i].merges = 0

C2_Witness ==
    /\ r_i = 2
    /\ r_stats[1].merges = 1
    /\ InTrace("merge")
    /\ r_local.merged

\* the gates of the current PR that ran and failed
ComplianceFailed == InTrace("compliance") /\ ~r_local.compliance_ok

AIReviewFailed ==
    DOMAIN r_local.review_result # {} /\ ~r_local.ai_approved

TestsFailed == InTrace("pytest") /\ ~r_local.tests_passed

InComment(section) ==
    \E k \in 1..Len(r_local.posted[1]) : r_local.posted[1][k] = section

\* C11: when the processing of a PR is over and at least one of its gates
\* failed, create_issue_comment was called once for it and one comment
\* stands on the PR, with a section for each gate that failed and for no
\* gate that passed.
C11_OneConsolidatedComment ==
    /\ \A i \in 1..Len(r_prs) : r_stats[i].comment_calls <= 1
    /\ (r_pc = "cleanup"
          /\ (ComplianceFailed \/ AIReviewFailed \/ TestsFailed)) =>
          /\ r_stats[r_i].comment_calls = 1
          /\ Len(r_local.posted) = 1
          /\ InComment("Compliance Violation") <=> ComplianceFailed
          /\ InComment("AI Code Review") <=> AIReviewFailed
          /\ InComment("Test Failures") <=> TestsFailed

\* C12: a failing compliance check keeps review_code_llm and pytest from
\* being invoked for the PR, and the PR still gets the failure comment.
C12_ComplianceBlocks ==
    ComplianceFailed =>
        /\ ~InTrace("ai_review")
        /\ ~InTrace("pytest")
        /\ r_pc = "cleanup" => Len(r_local.posted) = 1

\* the gate invocations of the current PR, in the order they were made
GateOps ==
    SelectSeq(r_trace, LAMBDA op : op \in {"compliance", "ai_review", "pytest"})

\* C13: for a PR that was fetched and checked out the gates are invoked in
\* the order compliance, AI review, pytest, and all three have been invoked
\* when its processing is over, whatever the compliance check and the AI
\* review gave.
C13_AllGatesRun ==
    /\ GateOps = SubSeq(<<"compliance", "ai_review", "pytest">>,
                        1, Len(GateOps))
    /\ (InTrace("compliance")
          /\ r_pc \in {"merge", "history", "comment", "cleanup"}) =>
          Len(GateOps) = 3

AllGatesPassed ==
    /\ InTrace("pytest")
    /\ r_local.compliance_ok /\ r_local.ai_approved /\ r_local.tests_passed

\* C14 as stated: when every gate passed for a PR, pr.merge was called
\* exactly once for it and no comment was posted.
C14_MergeOnceWhenAllPass ==
    (r_pc = "cleanup" /\ AllGatesPassed) =>
        /\ r_stats[r_i].merges = 1
        /\ r_stats[r_i].comment_calls = 0

\* C14, amended: when every gate passed for a PR that is not a draft,
\* pr.merge was called exactly once for it; for a draft it was not called;
\* in both cases no comment was posted.
C14_MergeOnceUnlessDraft ==
    (r_pc = "cleanup" /\ AllGatesPassed) =>
        /\ r_stats[r_i].merges = IF r_prs[r_i].draft THEN 0 ELSE 1
        /\ r_stats[r_i].comment_calls = 0
        /\ r_local.posted = <<>>

C14_Witness ==
    /\ r_pc = "cleanup"
    /\ AllGatesPassed
    /\ ~r_prs[r_i].draft
    /\ r_stats[r_i].merges = 1
    /\ r_local.merged
    /\ r_i = 2
    /\ r_prs[1].draft
    /\ r_stats[1] = [merges |-> 0, comment_calls |-> 0, cleanups |-> 1]

\* C15: a pr.merge that raises is logged as an error and leads to the
\* cleanup; the cleanup goes on to the next PR; pr.merge is never called a
\* second time for a PR.
C15_MergeFailureNotRetried ==
    /\ [](\A i \in 1..Len(r_prs) : r_stats[i].merges <= 1)
    /\ [][r_pc = "merge" =>
            /\ r_pc' = "cleanup"
            /\ r_stats'[r_i].merges = 1
            /\ ~r_local'.merged =>
                  r_local'.logged = Append(r_local.logged, UnexpectedError)]_vars
    /\ [][(r_pc = "cleanup" /\ InTrace("merge")) =>
            /\ r_i' = r_i + 1
            /\ r_stats'[r_i].merges = 1
            /\ r_pc' = IF r_i < Len(r_prs) THEN "fetch" ELSE "done"]_vars

C15_Witness ==
    /\ r_i = 2
    /\ r_stats[1].merges = 1
    /\ r_pc = "cleanup"
    /\ InTrace("merge")
    /\ ~r_local.merged
    /\ r_local.logged = <<UnexpectedError>>

(***************************************************************************)
(* Properties of the candidate scoring                                     *)
(***************************************************************************)

\* a and b are the same candidate but for one signal, and a has the higher
\* value of it: the catalog rating or the Hacker News score
HigherSignal(a, b) ==
    /\ a.title = b.title
    /\ a.description = b.description
    /\ a.ratingsCount = b.ratingsCount
    /\ \/ g_rating(a) > g_rating(b)
             /\ Get(a, "hn_score", 0) = Get(b, "hn_score", 0)
       \/ g_rating(a) = g_rating(b)
             /\ Get(a, "hn_score", 0) > Get(b, "hn_score", 0)

\* C16: in the vetted_books that validation_node returns, a candidate that
\* differs from another one only by a higher rating or a higher discussion
\* score never stands below it, unless their final scores are equal.
C16_ScorerMonotone ==
    v_pc = "returned" =>
        \A i, j \in 1..Len(v_vetted) :
            (i < j /\ HigherSignal(v_vetted[j], v_vetted[i])) =>
                v_vetted[j].final_score = v_vetted[i].final_score

(***************************************************************************)
(* Properties of the parsers of model output                               *)
(***************************************************************************)

\* C17: no parser of model output raises on an answer, whatever the answer
\* is; it returns the parsed value or its default.
C17_NoParseException ==
    p_pc = "done" => ~p_out.raised

\* the entries of the log written for PR i
EntriesFor(i) == Len(SelectSeq(r_history, LAMBDA e : e.pr_id = i))

HistoryWriteRaised == InTrace("write_history") /\ ~InTrace("commit_history")

C26_RefetchOnCheck ==
    /\ k_updates = Len(k_checks)
    /\ \A n \in 1..Len(k_checks) :
          k_checks[n].found = (k_checks[n].remote # None
                               /\ Contains(k_checks[n].remote, CopilotLogHeader))

\* C27: for a PR whose pytest run passed, review_code_llm has not been
\* called.
C27_NoReviewWhenTestsPass ==
    (InTrace("pytest") /\ r_local.tests_passed) => ~InTrace("ai_review")

\* raw_candidates[i] as it stands in a book_data of vetted_books
InVetted(i) ==
    \E n \in 1..Len(v_vetted) :
        [f \in DOMAIN v_raw[i] |-> v_vetted[n][f]] = v_raw[i]

\* C23: for a candidate that the threshold excluded, validation_node made
\* no signal lookup and computed no score, and the candidate is not in
\* vetted_books.
C23_DropBeforeScoring ==
    \A k \in 1..Len(v_ops) :
        v_ops[k].op = "drop" =>
            /\ \A j \in 1..Len(v_ops) :
                  v_ops[j].i = v_ops[k].i => v_ops[j].op = "drop"
            /\ ~InVetted(v_ops[k].i)

\* the places of raw_candidates that hold the candidate of vetted_books[n]
PlacesOf(n) ==
    { i \in 1..Len(v_raw) :
        [f \in DOMAIN v_raw[i] |-> v_vetted[n][f]] = v_raw[i] }

\* C24: in the vetted_books returned, two candidates with equal final_score
\* stand in the order the provider gave them (checked for candidates that
\* occur once in raw_candidates), so selected_book is the first of the
\* provider's candidates among those sharing the top score.
C24_StableTies ==
    v_pc = "returned" =>
        \A i, j \in 1..Len(v_vetted) :
            (/\ i < j
             /\ v_vetted[i].final_score = v_vetted[j].final_score
             /\ Cardinality(PlacesOf(i)) = 1
             /\ Cardinality(PlacesOf(j)) = 1) =>
                \A a \in PlacesOf(i), b \in PlacesOf(j) : a < b

\* the candidates that survive the filter of the validation_node that ran
Survivors ==
    IF v_impl = "hacker_news" THEN legacy_kept(v_raw)
    ELSE SelectSeq(v_raw,
            LAMBDA b : reliability_book_data(b, v_env).reliability_score >= 60)

\* C25: the vetted_books returned are in non-increasing order of
\* final_score, selected_book is its first element and no candidate has a
\* higher final_score; selected_book is None exactly when no candidate
\* survived the filter, an empty raw_candidates included.
C25_SortedAndTopSelected ==
    v_pc = "returned" =>
        /\ \A i, j \in 1..Len(v_vetted) :
              i < j => v_vetted[i].final_score >= v_vetted[j].final_score
        /\ v_vetted # <<>> =>
              /\ v_selected = v_vetted[1]
              /\ \A i \in 1..Len(v_vetted) :
                    v_selected.final_score >= v_vetted[i].final_score
        /\ (v_selected = None) <=> (Survivors = <<>>)
        /\ Len(v_vetted) = Len(Survivors)
        /\ v_raw = <<>> => v_selected = None

C25_Witness ==
    /\ v_pc = "returned"
    /\ Len(v_raw) = 3
    /\ Len(v_vetted) = 2
    /\ v_vetted[1].final_score > v_vetted[2].final_score
    /\ v_selected = v_vetted[1]

\* C28: when the Curator returned no selected book, run_pipeline has ended
\* the process with exit code 1 and has invoked no stage after the Curator.
C28_ExitOnNoBook ==
    (/\ q_pc = "done"
     /\ q_outcome \notin {"idle", "raised"}
     /\ q_local.selected_book = None) =>
        /\ q_outcome = "exit 1"
        /\ q_calls = <<"curator">>

\* the autopilot loop has been entered
LoopEntered == d_pc \in {"standup", "health", "sleep"} \/ d_iters # <<>>

\* C29: started through main, the manager has run git pull, and run it with
\* success, before the autopilot loop is entered; when the pull exited
\* non-zero (CalledProcessError) or git is missing (FileNotFoundError) the
\* process has exited with status 1 and the loop was never entered.
C29_PullBeforeLoop ==
    d_entry = "main" =>
        /\ LoopEntered => d_pull = "ok"
        /\ d_pull \in {"CalledProcessError", "FileNotFoundError"} =>
              /\ d_pc = "exited"
              /\ d_exit = 1
              /\ ~LoopEntered
        /\ d_pull = "none" => d_pc = "git_pull"

C29_Witness ==
    /\ d_entry = "main"
    /\ d_pull = "FileNotFoundError"
    /\ d_pc = "exited"
    /\ d_exit = 1

\* iteration k of the loop is over
IterationOver(k) == k < Len(d_iters) \/ d_pc # "health"

IsDue(it) == (it.clock - it.last) > health_check_interval

\* last_check_time goes from one iteration to the next unchanged unless the
\* iteration assigned it, and then it is the time that iteration read
LastCheckTimeChain ==
    /\ \A k \in 1..Len(d_iters) - 1 :
          d_iters[k + 1].last =
              IF d_iters[k].set THEN d_iters[k].clock ELSE d_iters[k].last
    /\ \A k \in 1..Len(d_iters) :
          (k = Len(d_iters) /\ IterationOver(k)) =>
              d_last_check_time =
                  IF d_iters[k].set THEN d_iters[k].clock ELSE d_iters[k].last

\* without --run-now two health checks are more than 3600 seconds apart
ChecksApart ==
    ~d_run_now =>
        \A j, k \in 1..Len(d_iters) :
            (j < k /\ d_iters[j].checked /\ d_iters[k].checked) =>
                d_iters[k].clock - d_iters[j].clock > health_check_interval

LastCritique == CriticCalls[Len(CriticCalls)].response

\* the run ended because the critic's last answer held the sentinel
EndedAccepted ==
    /\ pc = END
    /\ Len(CriticCalls) >= 1
    /\ Contains(LastCritique, LGTM)

\* the run ended because the retries ran out
EndedExhausted ==
    /\ pc = END
    /\ Len(CriticCalls) >= 1
    /\ ~Contains(LastCritique, LGTM)

\* C31: at the end of a run the feedback holds the sentinel, in capitals,
\* if and only if the run ended accepted; a final feedback without it means
\* revision_count >= MAX_RETRIES, with the last draft as the result and no
\* error; a sentinel in the critique of the last allowed iteration is an
\* acceptance.
C31_OutcomesDistinguishable ==
    pc = END =>
        /\ EndedAccepted \/ EndedExhausted
        /\ state["critique_feedback"] = LastCritique
        /\ Contains(state["critique_feedback"], LGTM) <=> EndedAccepted
        /\ ~Contains(state["critique_feedback"], LGTM) =>
              /\ EndedExhausted
              /\ state["revision_count"] >= MAX_RETRIES
              /\ state["draft_analysis"] = produced[Len(produced)]
        /\ (state["revision_count"] = MAX_RETRIES
              /\ Contains(LastCritique, LGTM)) => EndedAccepted

C31_Witness ==
    /\ pc = END
    /\ state["revision_count"] = MAX_RETRIES
    /\ CountSteps("critique") = MAX_RETRIES
    /\ Contains(state["critique_feedback"], LGTM)
    /\ EndedAccepted

\* the step the graph's edges allow at position k of a run
StepAt(k) ==
    IF k = 1 THEN "router"
    ELSE IF k = 2 THEN "draft"
    ELSE IF k % 2 = 1 THEN "critique" ELSE "revise"

\* C32: a run is draft, critique, then (revise, critique) pairs: a revise
\* step comes right after a critique whose answer lacks the sentinel, the
\* j-th critique is given the j-th draft version (so each version is
\* critiqued once, and all of them when the run has ended), and after the
\* terminal critique no step is made.
C32_StepOrder ==
    /\ [](\A k \in 1..Len(steps) :
            /\ steps[k] = StepAt(k)
            /\ steps[k] = "revise" =>
                  /\ steps[k - 1] = "critique"
                  /\ ~Contains(CriticCalls[(k - 2) \div 2].response, LGTM))
    /\ [](/\ Len(CriticCalls) = CountSteps("critique")
          /\ Len(produced) = CountSteps("draft") + CountSteps("revise")
          /\ Len(CriticCalls) <= Len(produced)
          /\ Len(produced) <= Len(CriticCalls) + 1
          /\ \A j \in 1..Len(CriticCalls) :
                CriticCalls[j].human
                  = CritiqueMessage([draft_analysis |-> produced[j]]))
    /\ [](pc = END =>
            /\ steps[Len(steps)] = "critique"
            /\ Len(CriticCalls) = Len(produced))
    /\ [][pc = END =>
            /\ steps' = steps
            /\ produced' = produced
            /\ llm_calls' = llm_calls]_vars

C32_Witness ==
    /\ pc = END
    /\ steps = <<"router", "draft", "critique", "revise", "critique",
                 "revise", "critique">>
    /\ Len(produced) = 3
    /\ produced[2] # produced[3]
    /\ Contains(LastCritique, LGTM)

(***************************************************************************)
(* Properties of the loop over the open PRs                                *)
(***************************************************************************)

\* the positions of process_open_prs inside the inner try statement
InsideTry ==
    r_pc \in {"fetch", "checkout", "review", "tests", "merge", "history",
              "comment"}

\* C33: the PRs are processed one at a time in list order; the cleanup of a
\* PR runs once, after the PR's fetch and before the fetch of the next PR,
\* whatever happened in between; no failure inside the processing of a PR
\* ends the loop, so that the run is over only when every PR of the list
\* has been fetched and cleaned up.
C33_CleanupOncePerPR ==
    /\ [](/\ r_i \in 1..(Len(r_prs) + 1)
          /\ \A i \in 1..Len(r_prs) :
                r_stats[i].cleanups = IF i < r_i THEN 1 ELSE 0)
    /\ [](r_pc = "done" => r_i = Len(r_prs) + 1)
    /\ [](r_pc # "done" => ENABLED NextReview)
    /\ [][r_i' # r_i =>
            /\ r_i' = r_i + 1
            /\ r_pc = "cleanup"
            /\ r_trace # <<>> /\ r_trace[1] = "fetch"
            /\ r_stats'[r_i].cleanups = 1
            /\ r_pc' = IF r_i < Len(r_prs) THEN "fetch" ELSE "done"]_vars
    /\ [][(r_trace = <<>> /\ r_trace' # <<>>) =>
            /\ r_pc = "fetch"
            /\ r_trace' = <<"fetch">>
            /\ \A j \in 1..(r_i - 1) : r_stats[j].cleanups = 1]_vars
    /\ [][InsideTry => (r_i' = r_i /\ r_pc' # "done")]_vars

\* the first PR, neither a draft nor merged nor commented, was cleaned up
\* after an error, and the second PR went through to its merge
C33_Witness ==
    /\ Len(r_prs) = 2
    /\ r_i = 2
    /\ ~r_prs[1].draft
    /\ r_stats[1] = [merges |-> 0, comment_calls |-> 0, cleanups |-> 1]
    /\ r_pc = "cleanup"
    /\ r_trace = <<"fetch", "checkout", "compliance", "ai_review", "pytest",
                   "merge">>
    /\ r_local.merged
    /\ r_local.logged = <<>>

\* C34: pr.merge is never called for a PR marked as draft; when all three
\* gates passed for a draft, its processing goes from the tests straight to
\* the cleanup, with neither a merge nor a comment.
C34_DraftNeverMerged ==
    /\ [](\A i \in 1..Len(r_prs) : r_prs[i].draft => r_stats[i].merges = 0)
    /\ []((r_i \in 1..Len(r_prs) /\ r_prs[r_i].draft) =>
            (r_pc # "merge" /\ ~InTrace("merge") /\ ~r_local.merged))
    /\ []((r_i \in 1..Len(r_prs) /\ r_prs[r_i].draft /\ AllGatesPassed) =>
            /\ r_pc = "cleanup"
            /\ r_trace[Len(r_trace)] = "pytest"
            /\ r_stats[r_i].comment_calls = 0
            /\ r_local.posted = <<>>)
    /\ [][(r_pc = "tests" /\ r_prs[r_i].draft /\ r_local.compliance_ok
             /\ r_local.ai_approved /\ r_local'.tests_passed) =>
            r_pc' = "cleanup"]_vars

C34_Witness ==
    /\ r_pc = "cleanup"
    /\ r_prs[r_i].draft
    /\ AllGatesPassed
    /\ r_trace[Len(r_trace)] = "pytest"
    /\ r_stats[r_i] = [merges |-> 0, comment_calls |-> 0, cleanups |-> 0]
    /\ r_local.logged = <<>>

\* git fetch or git checkout failed for the current PR
GitFailed ==
    /\ r_local.logged # <<>>
    /\ r_local.logged[1] = GitCommandFailed

\* C35: when the fetch or the checkout of a PR fails, no gate is run for
\* it, pr.merge and create_issue_comment are not called for it, the failure
\* is logged once, and the next step is the PR's cleanup.
C35_GitFailureSkipsGates ==
    /\ [](GitFailed =>
            /\ r_pc = "cleanup"
            /\ r_trace \in { <<"fetch">>, <<"fetch", "checkout">> }
            /\ GateOps = <<>>
            /\ r_stats[r_i].merges = 0
            /\ r_stats[r_i].comment_calls = 0
            /\ r_local.posted = <<>>
            /\ ~r_local.merged
            /\ r_local.logged = <<GitCommandFailed>>)
    /\ []((r_pc = "cleanup" /\ ~InTrace("compliance")) => GitFailed)
    /\ [][GitFailed =>
            /\ r_stats'[r_i].cleanups = 1
            /\ r_stats'[r_i].merges = 0
            /\ r_stats'[r_i].comment_calls = 0
            /\ r_i' = r_i + 1]_vars

C35_Witness ==
    /\ GitFailed
    /\ r_pc = "cleanup"
    /\ r_trace = <<"fetch", "checkout">>
    /\ check_copilot_compliance(r_prs[r_i])
    /\ ~r_prs[r_i].draft

\* the comments of the dicts review_code_llm returns when it fails open
FailOpenComments ==
    { "Skipped AI review (LLM not configured).",
      "No code changes detected.",
      "AI Review failed due to internal error" }

\* review_code_llm ran for the current PR and gave no verdict: the model is
\* not configured, the diff is empty, the call or the parsing failed, or the
\* parsed result has no 'approved' field
NoVerdict ==
    /\ InTrace("ai_review")
    /\ \/ "approved" \notin DOMAIN r_local.review_result
       \/ Get(r_local.review_result, "comments", "") \in FailOpenComments

\* C36: when the AI review gives no verdict the gate counts as passed:
\* ai_approved is true, pytest is run, and the PR is merged exactly when the
\* compliance check and the test run passed (and it is no draft).
C36_ReviewFailsOpen ==
    NoVerdict =>
        /\ r_local.ai_approved
        /\ r_pc \in {"merge", "history", "comment", "cleanup"} =>
              InTrace("pytest")
        /\ r_pc = "cleanup" =>
              (InTrace("merge") <=>
                 /\ r_local.compliance_ok
                 /\ r_local.tests_passed
                 /\ ~r_prs[r_i].draft)

\* no verdict from a result that is a dict
C36_DictNoVerdict ==
    (NoVerdict /\ DOMAIN r_local.review_result # {}) =>
        /\ r_local.ai_approved
        /\ r_pc \in {"merge", "history", "comment", "cleanup"} =>
              InTrace("pytest")
        /\ r_pc = "cleanup" =>
              (InTrace("merge") <=>
                 /\ r_local.compliance_ok
                 /\ r_local.tests_passed
                 /\ ~r_prs[r_i].draft)

(***************************************************************************)
(* Failure of the discussion-score lookup                                  *)
(***************************************************************************)

\* the Hacker News search failed for the book
HNLookupFailed(book) == v_env.hn[book.title].kind = "raise"

\* curator.py validation_node was run on a list with a candidate that
\* passes the rating filter and whose lookup failed
SomeLookupFailed ==
    /\ v_impl = "hacker_news"
    /\ v_pc \in {"returned", "raised"}
    /\ \E i \in 1..Len(legacy_kept(v_raw)) :
          HNLookupFailed(legacy_kept(v_raw)[i])

\* C37: validation_node returns its ranking and selection also when
\* get_hn_sentiment failed for a candidate: every candidate that passes the
\* rating filter is ranked, one whose lookup failed with hn_score 0, and
\* validation_node does not raise.
C37_LookupFailureScoresZero ==
    SomeLookupFailed =>
        /\ v_pc = "returned"
        /\ Len(v_vetted) = Len(legacy_kept(v_raw))
        /\ \A k \in 1..Len(v_vetted) :
              HNLookupFailed(v_vetted[k]) => v_vetted[k].hn_score = 0
        /\ v_selected = v_vetted[1]

(***************************************************************************)
(* Frame of trigger_recovery                                               *)
(***************************************************************************)

\* C38: a trigger_recovery call with a failure type other than 'quality',
\* and a 'quality' call made once the breaker has tripped, leave
\* optimization_attempts as it was and do not run the optimizer; the
\* counter changes only in a call that runs the optimizer.
C38_CounterFrame ==
    /\ [][(m_calls' # m_calls
             /\ (m_last'.failure_type # "quality" \/ BreakerTripped)) =>
            /\ optimization_attempts' = optimization_attempts
            /\ optimizer_runs' = optimizer_runs
            /\ m_last'.did # "optimizer"]_vars
    /\ [][optimization_attempts' # optimization_attempts =>
            /\ m_last'.failure_type = "quality"
            /\ m_last'.did = "optimizer"
            /\ ~BreakerTripped
            /\ optimizer_runs' = optimizer_runs + 1]_vars

C38_Witness ==
    /\ m_last = [failure_type |-> "network", did |-> "nothing", exit |-> 0]
    /\ optimization_attempts = (target_component :> 1)
    /\ optimizer_runs = 1
    /\ m_calls = 2

(***************************************************************************)
(* Properties of the comment-tree walk                                     *)
(***************************************************************************)

RECURSIVE Depth(_, _)
\* the number of levels between the story and node i
Depth(tree, i) == IF i = 1 THEN 0 ELSE 1 + Depth(tree, tree.parent[i])

RECURSIVE PreOrderOf(_, _)
\* the nodes below and including the given ones, parents before children
\* and children in their order
PreOrderOf(tree, nodes) ==
    IF nodes = <<>> THEN <<>>
    ELSE <<Head(nodes)>>
         \o PreOrderOf(tree, Children(tree, Head(nodes)) \o Tail(nodes))

\* the comments of the nodes with a text at most MaxDepth levels below the
\* story, in pre-order
ShallowComments ==
    LET nodes == SelectSeq(PreOrderOf(w_tree, <<1>>),
                           LAMBDA i : /\ i \in w_tree.text
                                      /\ Depth(w_tree, i) <= MaxDepth)
    IN  [k \in 1..Len(nodes) |-> EngineerComment(nodes[k])]

\* the number of comments in the string returned
CommentsIn(out) ==
    Cardinality({ k \in 1..Len(out) : out[k] = "[Engineer Comment]: " })

\* C39: get_hn_comments returns for every discussion tree; the walk keeps
\* at most MaxDepth + 2 calls of extract_comments active, collects only
\* texts of nodes at most 3 levels below the story, collects them in
\* pre-order, and the string returned holds the first 30 of them at most.
C39_BoundedWalk ==
    /\ <>(w_pc = "returned")
    /\ [](Len(w_stack) <= MaxDepth + 2)
    /\ [](\A k \in 1..Len(w_comments_text) :
            \E i \in w_tree.text :
                /\ Depth(w_tree, i) <= MaxDepth
                /\ w_comments_text[k] = EngineerComment(i))
    /\ [](w_comments_text
            = SubSeq(ShallowComments, 1, Len(w_comments_text)))
    /\ []((w_pc = "returned" /\ w_outcome = "item") =>
            /\ w_comments_text = ShallowComments
            /\ CommentsIn(w_out) = Min(MaxComments, Len(ShallowComments))
            /\ w_out = Join(<<"\n">>,
                            SubSeq(ShallowComments, 1, CommentsIn(w_out))))

C39_Witness ==
    /\ w_pc = "returned"
    /\ w_tree = BushyTree
    /\ Len(w_comments_text) = 34
    /\ CommentsIn(w_out) = MaxComments

====
